---- MODULE Spec2Model ----
(***************************************************************************)
(* SensorSentinel: binary Sensor/GNSS packet codec, the (nodeId, counter)  *)
(* duplicate-suppression caches of the MQTT gateway and of the repeater,   *)
(* and the receive paths that use them.                                    *)
(*                                                                         *)
(* Buffers are sequences of bytes (0..255); C offset k is element k+1.     *)
(* Multi-byte fields are little-endian (ESP32).  TLC integers are 32-bit   *)
(* signed, so uint32 fields are decoded with U32 on inputs whose top byte  *)
(* is below 128, and IEEE-754 floats are decoded to sign + 31-bit          *)
(* magnitude.                                                              *)
(***************************************************************************)
EXTENDS Integers, Sequences, FiniteSets, TLC

VARIABLES
    data,        \* codec: the buffer handed to validate (NULL or bytes)
    dataSize,    \* codec: the dataSize argument
    isValid,     \* codec: result of the validate call
    codecPc,     \* codec: "call" before the function ran, then "returned"
                 \*        (validate) or "parsed" (parse)
    outputPacket,  \* codec: the caller's output buffer handed to parse
    outputSize,    \* codec: the outputSize argument
    parseResult,   \* codec: return value of the parse call
    messageType,   \* codec: the argument handed to get_packet_size
    packetSize,    \* codec: return value of the get_packet_size call
    device,        \* builder: what the collaborators report (MAC-derived
                   \*          id, millis, battery ADC, GNSS receiver)
    gnssPacket,    \* builder: the caller's packet struct, as bytes
    hasValidFix,   \* builder: return value of init_gnss_packet
    heltecGnss,          \* transceiver: the build defines HELTEC_GNSS
    now,                 \* transceiver: millis()
    lastTxTime,          \* transceiver: lastTxTime
    minimumPause,        \* transceiver: minimumPause
    pendingGpsTransmit,  \* transceiver: pendingGpsTransmit
    gpsInitialized,      \* transceiver: gpsInitialized
    txLog,         \* history: the last two transmissions of the transceiver
    sensorPacketCounter,  \* sender: uint32, kept as its 4 bytes
    gnssPacketCounter,    \* sender: uint32, kept as its 4 bytes
    txPacket,      \* sender: the bytes last handed to radio.transmit
    txOk,          \* sender: whether that transmit returned ERR_NONE
    sends,         \* history: calls of sendSensorPacket / sendGnssPacket
    sentLog,       \* history: per packet type, the counter field and the
                   \*          transmit result of the last two packets built
    mqttVariant,   \* MQTT: the module built, "helper" (mqtt_helper.cpp) or
                   \*       "gateway" (mqtt_gateway.cpp)
    mqttUserSet,   \* MQTT: the configured user name is not empty
    wifiConnected, \* MQTT: SensorSentinel_wifi_connected()
    mqttConnected, \* MQTT: mqttClient.connected()
    millis,        \* MQTT: millis(), a uint32 kept as two 16-bit halves
    lastMqttConnectionAttempt,  \* MQTT: uint32, kept the same way
    clock,         \* history: milliseconds passed since the start
    attemptLog,    \* history: clock at the start of the last two broker
                   \*          connection attempts, and how they ended
    mqttCalls,     \* history: calls of maintain / connect
    mqttStatus,    \* MQTT: return value of the forward call
    publishCalls,  \* history: results of the publish calls the forward made
    role,                \* the sketch this device runs: "gateway", "repeater"
    receivedCache,       \* gateway: ReceivedPacketCache[PACKET_CACHE_SIZE]
    receivedCacheIndex,  \* gateway: write cursor
    packetCache,         \* repeater: PacketCache[PACKET_CACHE_SIZE]
    cacheIndex,          \* repeater: write cursor
    calls,       \* history: number of remember calls made so far
    last,        \* history: the pair of the most recent remember call
    since,       \* history: per pair, remember calls made after its last
                 \*          remember (-1: never remembered)
    arbitrary,   \* history: remember calls made with a chosen pair
    fresh,       \* history: fresh pairs produced so far
    pc,                  \* position of the main loop, see PipeNext
    packetReceived,      \* _packetReceived, set by the DIO1 interrupt
    dio1Action,          \* TRUE while _handleLoRaRx is attached to DIO1
    radioMode,           \* "rx" while the radio is receiving, or "standby"
    radioPacket,         \* the last packet the radio has received
    radioCrcOk,          \* whether that packet arrived intact
    binaryPacketBuffer,  \* _binaryPacketBuffer[0 .. _binaryPacketLength)
    packetBuffer,        \* gateway: packetBuffer[0 .. length)
    packetsRepeated,     \* repeater counter
    out,         \* what the current callback invocation has done, in order
    sightings,   \* history: per pair, valid receptions handed to a callback
    packetCallback,        \* radio helper: _packetCallback, NULL or set
    binaryPacketCallback,  \* radio helper: _binaryPacketCallback
    failed       \* history: the pair of the latest forward (gateway) or
                 \*          repeat transmission (repeater), if that failed
                 \*          and the pair is a chosen one

codecVars ==
    <<data, dataSize, isValid, codecPc, outputPacket, outputSize,
      parseResult, messageType, packetSize, device, gnssPacket,
      hasValidFix>>
builderVars == <<device, gnssPacket, hasValidFix>>
cacheVars == <<receivedCache, receivedCacheIndex, packetCache, cacheIndex>>
histVars == <<calls, last, since, arbitrary, fresh, failed>>
radioVars ==
    <<packetReceived, dio1Action, radioMode, radioPacket, radioCrcOk,
      binaryPacketBuffer>>
\* The sketches' display output, LED and the gateway's statistics counters
\* (packetsReceived, packetsForwarded, lastPacketTime) are not modelled.
sketchVars == <<packetBuffer, packetsRepeated>>
pipeVars == <<pc, radioVars, sketchVars, out, sightings>>
trackerVars ==
    <<heltecGnss, now, lastTxTime, minimumPause, pendingGpsTransmit,
      gpsInitialized, txLog>>
senderVars ==
    <<sensorPacketCounter, gnssPacketCounter, txPacket, txOk, sends,
      sentLog>>
mqttVars ==
    <<mqttVariant, mqttUserSet, wifiConnected, mqttConnected, millis,
      lastMqttConnectionAttempt, clock, attemptLog, mqttCalls, mqttStatus,
      publishCalls>>
subVars == <<packetCallback, binaryPacketCallback>>
sendVars == <<trackerVars, senderVars, mqttVars, subVars>>
vars == <<codecVars, role, cacheVars, histVars, pipeVars, sendVars>>

\* A null pointer: a buffer without storage.
NULL == <<>>

\* ------------------------------------------------------------------------
\* Wire format
\* ------------------------------------------------------------------------
SensorSentinel_MSG_SENSOR == 1
SensorSentinel_MSG_GNSS == 2

\* sizeof(SensorSentinel_pin_readings_t): 4 x uint16 + uint8, the struct is
\* not packed, so it is padded to its 2-byte alignment.
PinReadingsSize == 10

\* sizeof(SensorSentinel_sensor_packet_t): packed header (16 bytes), the
\* embedded pin readings, 2 reserved bytes.
SensorPacketSize == 16 + PinReadingsSize + 2

\* sizeof(SensorSentinel_gnss_packet_t): packed, 16 + 4*4 + 1 + 2.
GnssPacketSize == 35

\* C offsets of the fields (both packet types share the first 16 bytes).
OffMessageType == 0
OffNodeId == 1
OffMessageCounter == 5
OffUptime == 9
OffBatteryLevel == 13
OffBatteryVoltage == 14
OffAnalog == 16
OffBoolean == 24
OffLatitude == 16
OffLongitude == 20
OffSpeed == 24
OffHdop == 28
OffCourse == 29

Byte == 0..255

\* Little-endian decoding of the bytes at C offset off.
U8(buf, off) == buf[off + 1]
U16(buf, off) == buf[off + 1] + 256 * buf[off + 2]
U32(buf, off) ==
    buf[off + 1] + 256 * buf[off + 2] + 65536 * buf[off + 3]
        + 16777216 * buf[off + 4]

\* Little-endian encoding.
Bytes16(v) == <<v % 256, (v \div 256) % 256>>
Bytes32(v) ==
    <<v % 256, (v \div 256) % 256, (v \div 65536) % 256,
      (v \div 16777216) % 256>>

\* An IEEE-754 binary32 read from 4 bytes: sign bit and the 31 remaining
\* bits (exponent and mantissa) as one magnitude.
F32(buf, off) ==
    [neg |-> buf[off + 4] >= 128,
     mag |-> buf[off + 1] + 256 * buf[off + 2] + 65536 * buf[off + 3]
                 + 16777216 * (buf[off + 4] % 128)]

FloatInfMag == 2139095040      \* 0x7F800000
FloatIsNaN(f) == f.mag > FloatInfMag
\* Total order of the non-NaN values (-0.0 and +0.0 compare equal).
FloatKey(f) == IF f.neg THEN 0 - f.mag ELSE f.mag
\* C comparisons: every comparison with a NaN operand is false.
FloatLT(a, b) == ~FloatIsNaN(a) /\ ~FloatIsNaN(b) /\ FloatKey(a) < FloatKey(b)
FloatGT(a, b) == FloatLT(b, a)
FloatGE(a, b) == ~FloatIsNaN(a) /\ ~FloatIsNaN(b) /\ FloatKey(a) >= FloatKey(b)
FloatLE(a, b) == FloatGE(b, a)

\* The literals validate compares against (all exact in binary32).
Lit0 == [neg |-> FALSE, mag |-> 0]
Lit90 == [neg |-> FALSE, mag |-> 1119092736]        \* 0x42B40000
LitNeg90 == [neg |-> TRUE, mag |-> 1119092736]
Lit180 == [neg |-> FALSE, mag |-> 1127481344]       \* 0x43340000
LitNeg180 == [neg |-> TRUE, mag |-> 1127481344]
Lit360 == [neg |-> FALSE, mag |-> 1135869952]       \* 0x43B40000

\* ------------------------------------------------------------------------
\* Packet codec
\* ------------------------------------------------------------------------
\* Mutant: the default case returns the size of the larger struct.
SensorSentinel_get_packet_size_DefaultGnss(type) ==
    CASE type = SensorSentinel_MSG_SENSOR -> SensorPacketSize
      [] type = SensorSentinel_MSG_GNSS -> GnssPacketSize
      [] OTHER -> GnssPacketSize

SensorSentinel_get_packet_size(type) ==
    CASE type = SensorSentinel_MSG_SENSOR -> SensorPacketSize
      [] type = SensorSentinel_MSG_GNSS -> GnssPacketSize
      [] OTHER -> 0

\* Mutant: batteryLevel 100 is rejected too (>= instead of >).
ValidateSensorFields_BatteryGE100(buf) ==
    /\ U8(buf, OffMessageType) = SensorSentinel_MSG_SENSOR
    /\ U32(buf, OffNodeId) # 0
    /\ ~(U8(buf, OffBatteryLevel) >= 100)
    /\ \A i \in 0..3 : ~(U16(buf, OffAnalog + 2 * i) > 4095)

\* Mutant: the loop over the analog readings stops one reading early.
ValidateSensorFields_ThreeAnalog(buf) ==
    /\ U8(buf, OffMessageType) = SensorSentinel_MSG_SENSOR
    /\ U32(buf, OffNodeId) # 0
    /\ ~(U8(buf, OffBatteryLevel) > 100)
    /\ \A i \in 0..2 : ~(U16(buf, OffAnalog + 2 * i) > 4095)

\* Mutant: the nodeId check of the Sensor branch is missing.
ValidateSensorFields_NoNodeIdCheck(buf) ==
    /\ U8(buf, OffMessageType) = SensorSentinel_MSG_SENSOR
    /\ ~(U8(buf, OffBatteryLevel) > 100)
    /\ \A i \in 0..3 : ~(U16(buf, OffAnalog + 2 * i) > 4095)

ValidateSensorFields(buf) ==
    /\ U8(buf, OffMessageType) = SensorSentinel_MSG_SENSOR
    /\ U32(buf, OffNodeId) # 0
    /\ ~(U8(buf, OffBatteryLevel) > 100)
    \* batteryVoltage outside 2000..4500 only logs a warning
    /\ \A i \in 0..3 : ~(U16(buf, OffAnalog + 2 * i) > 4095)

\* Mutant: the nodeId check is missing.
ValidateGnssFields_NoNodeIdCheck(buf) ==
    /\ U8(buf, OffMessageType) = SensorSentinel_MSG_GNSS
    /\ ~(U8(buf, OffBatteryLevel) > 100)
    /\ ~(FloatLT(F32(buf, OffLatitude), LitNeg90)
            \/ FloatGT(F32(buf, OffLatitude), Lit90))
    /\ ~(FloatLT(F32(buf, OffLongitude), LitNeg180)
            \/ FloatGT(F32(buf, OffLongitude), Lit180))
    /\ ~FloatLT(F32(buf, OffSpeed), Lit0)
    /\ ~(FloatLT(F32(buf, OffCourse), Lit0)
            \/ FloatGE(F32(buf, OffCourse), Lit360))
    /\ ~(U8(buf, OffHdop) > 200)

\* Mutant: a battery voltage outside 2000..4500 mV fails validation.
ValidateGnssFields_RejectsVoltage(buf) ==
    /\ U8(buf, OffMessageType) = SensorSentinel_MSG_GNSS
    /\ U32(buf, OffNodeId) # 0
    /\ ~(U8(buf, OffBatteryLevel) > 100)
    /\ ~(U16(buf, OffBatteryVoltage) < 2000
            \/ U16(buf, OffBatteryVoltage) > 4500)
    /\ ~(FloatLT(F32(buf, OffLatitude), LitNeg90)
            \/ FloatGT(F32(buf, OffLatitude), Lit90))
    /\ ~(FloatLT(F32(buf, OffLongitude), LitNeg180)
            \/ FloatGT(F32(buf, OffLongitude), Lit180))
    /\ ~FloatLT(F32(buf, OffSpeed), Lit0)
    /\ ~(FloatLT(F32(buf, OffCourse), Lit0)
            \/ FloatGE(F32(buf, OffCourse), Lit360))
    /\ ~(U8(buf, OffHdop) > 200)

ValidateGnssFields(buf) ==
    /\ U8(buf, OffMessageType) = SensorSentinel_MSG_GNSS
    /\ U32(buf, OffNodeId) # 0
    /\ ~(U8(buf, OffBatteryLevel) > 100)
    \* batteryVoltage outside 2000..4500 only logs a warning
    /\ ~(FloatLT(F32(buf, OffLatitude), LitNeg90)
            \/ FloatGT(F32(buf, OffLatitude), Lit90))
    /\ ~(FloatLT(F32(buf, OffLongitude), LitNeg180)
            \/ FloatGT(F32(buf, OffLongitude), Lit180))
    /\ ~FloatLT(F32(buf, OffSpeed), Lit0)
    /\ ~(FloatLT(F32(buf, OffCourse), Lit0)
            \/ FloatGE(F32(buf, OffCourse), Lit360))
    /\ ~(U8(buf, OffHdop) > 200)

\* Mutant: only a too short buffer is rejected (< instead of !=).
SensorSentinel_validate_packet_AtLeast(buf, size) ==
    IF buf = NULL THEN FALSE
    ELSE IF size < 1 THEN FALSE
    ELSE IF SensorSentinel_get_packet_size(U8(buf, OffMessageType)) = 0
        THEN FALSE
    ELSE IF size < SensorSentinel_get_packet_size(U8(buf, OffMessageType))
        THEN FALSE
    ELSE IF U8(buf, OffMessageType) = SensorSentinel_MSG_SENSOR
        THEN ValidateSensorFields(buf)
    ELSE ValidateGnssFields(buf)

SensorSentinel_validate_packet(buf, size) ==
    IF buf = NULL THEN FALSE
    ELSE IF size < 1 THEN FALSE
    ELSE IF SensorSentinel_get_packet_size(U8(buf, OffMessageType)) = 0
        THEN FALSE
    ELSE IF size # SensorSentinel_get_packet_size(U8(buf, OffMessageType))
        THEN FALSE
    ELSE IF U8(buf, OffMessageType) = SensorSentinel_MSG_SENSOR
        THEN ValidateSensorFields(buf)
    ELSE ValidateGnssFields(buf)

\* memcpy(dst, src, n): the first n bytes of dst become those of src.
memcpy(dst, src, n) ==
    [i \in 1..Len(dst) |-> IF i <= n THEN src[i] ELSE dst[i]]

\* Mutant: the packet is copied before it is validated.
SensorSentinel_parse_packet_CopyFirst(buf, size, output, outSize) ==
    IF output = NULL THEN [ret |-> 0, output |-> output]
    ELSE IF buf = NULL \/ size = 0 THEN [ret |-> 0, output |-> output]
    ELSE LET type == U8(buf, OffMessageType)
             expectedSize == SensorSentinel_get_packet_size(type)
         IN  IF expectedSize = 0 THEN [ret |-> 0, output |-> output]
             ELSE IF outSize < expectedSize
                 THEN [ret |-> 0, output |-> output]
             ELSE IF ~SensorSentinel_validate_packet(buf, size)
                 THEN [ret |-> 0,
                       output |-> memcpy(output, buf, expectedSize)]
             ELSE [ret |-> type,
                   output |-> memcpy(output, buf, expectedSize)]

\* Mutant: only the 16 header bytes are copied.
SensorSentinel_parse_packet_HeaderOnly(buf, size, output, outSize) ==
    IF output = NULL THEN [ret |-> 0, output |-> output]
    ELSE IF buf = NULL \/ size = 0 THEN [ret |-> 0, output |-> output]
    ELSE LET type == U8(buf, OffMessageType)
             expectedSize == SensorSentinel_get_packet_size(type)
         IN  IF expectedSize = 0 THEN [ret |-> 0, output |-> output]
             ELSE IF outSize < expectedSize
                 THEN [ret |-> 0, output |-> output]
             ELSE IF ~SensorSentinel_validate_packet(buf, size)
                 THEN [ret |-> 0, output |-> output]
             ELSE [ret |-> type,
                   output |-> memcpy(output, buf, OffAnalog)]

\* The return value and the contents of the output buffer afterwards.
SensorSentinel_parse_packet(buf, size, output, outSize) ==
    IF output = NULL THEN [ret |-> 0, output |-> output]
    ELSE IF buf = NULL \/ size = 0 THEN [ret |-> 0, output |-> output]
    ELSE LET type == U8(buf, OffMessageType)
             expectedSize == SensorSentinel_get_packet_size(type)
         IN  IF expectedSize = 0 THEN [ret |-> 0, output |-> output]
             ELSE IF outSize < expectedSize
                 THEN [ret |-> 0, output |-> output]
             ELSE IF ~SensorSentinel_validate_packet(buf, size)
                 THEN [ret |-> 0, output |-> output]
             ELSE [ret |-> type,
                   output |-> memcpy(output, buf, expectedSize)]

\* Mutant: the connection is tested before the packet is validated.
SensorSentinel_mqtt_forward_packet_ConnectedFirst(buf, length, connected, published) ==
    IF ~connected
    THEN [status |-> "MQTT_NOT_CONNECTED", publish |-> <<>>]
    ELSE IF ~SensorSentinel_validate_packet(buf, length)
    THEN [status |-> "MQTT_INVALID_PACKET", publish |-> <<>>]
    ELSE [status |-> IF published THEN "MQTT_SUCCESS"
                     ELSE "MQTT_PUBLISH_FAILED",
          publish |-> <<published>>]

\* The status returned and the publish calls made, with their results;
\* connected is what mqttClient.connected() reports and published what
\* mqttClient.publish returns when it is called.
SensorSentinel_mqtt_forward_packet(buf, length, connected, published) ==
    IF ~SensorSentinel_validate_packet(buf, length)
    THEN [status |-> "MQTT_INVALID_PACKET", publish |-> <<>>]
    ELSE IF ~connected
    THEN [status |-> "MQTT_NOT_CONNECTED", publish |-> <<>>]
    ELSE [status |-> IF published THEN "MQTT_SUCCESS"
                     ELSE "MQTT_PUBLISH_FAILED",
          publish |-> <<published>>]

\* The memory image of a SensorSentinel_sensor_packet_t with the fields of
\* the record p (reserved bytes and the padding byte of the pin readings are
\* zero after the memset).
SensorPacketImage(p) ==
    <<SensorSentinel_MSG_SENSOR>> \o Bytes32(p.nodeId)
        \o Bytes32(p.messageCounter) \o Bytes32(p.uptime)
        \o <<p.batteryLevel>> \o Bytes16(p.batteryVoltage)
        \o Bytes16(p.analog[1]) \o Bytes16(p.analog[2])
        \o Bytes16(p.analog[3]) \o Bytes16(p.analog[4])
        \o <<p.boolean, 0>> \o <<0, 0>>

\* The memory image of a SensorSentinel_gnss_packet_t with the fields of the
\* record p; the floats are given as their 4 bytes.
GnssPacketImage(p) ==
    <<SensorSentinel_MSG_GNSS>> \o Bytes32(p.nodeId)
        \o Bytes32(p.messageCounter) \o Bytes32(p.uptime)
        \o <<p.batteryLevel>> \o Bytes16(p.batteryVoltage)
        \o p.latitude \o p.longitude \o p.speed \o <<p.hdop>> \o p.course
        \o <<0, 0>>

\* ------------------------------------------------------------------------
\* Packet construction
\* ------------------------------------------------------------------------
\* Battery calibration table.
scaled_voltage ==
    <<254, 242, 230, 227, 223, 219, 215, 213, 210, 207,
      206, 202, 202, 200, 200, 199, 198, 198, 196, 196,
      195, 195, 194, 192, 191, 188, 187, 185, 185, 185,
      183, 182, 180, 179, 178, 175, 175, 174, 172, 171,
      170, 169, 168, 166, 166, 165, 165, 164, 161, 161,
      159, 158, 158, 157, 156, 155, 151, 148, 147, 145,
      143, 142, 140, 140, 136, 132, 130, 130, 129, 126,
      125, 124, 121, 120, 118, 116, 115, 114, 112, 112,
      110, 110, 108, 106, 106, 104, 102, 101, 99, 97,
      94, 90, 81, 80, 76, 73, 66, 52, 32, 7>>

\* heltec_vbat() is adc * 4.9 / 4095 volts on the Wireless Tracker and
\* adc / 238.7 volts on the other boards; a voltage is kept as the board
\* and the 12-bit ADC reading it was computed from, and compared and
\* converted in exact arithmetic.
\* vbat > min_voltage + step * sv, with min_voltage 3.04 and
\* step (4.26 - 3.04) / 256.
VbatAbove(vbat, sv) ==
    IF vbat.board = "tracker"
    THEN vbat.adc * 125440 > 4095 * (77824 + 122 * sv)
    ELSE vbat.adc * 256000 > 2387 * (77824 + 122 * sv)

\* (uint16_t)(vbat * 1000.0f)
MilliVolts(vbat) ==
    IF vbat.board = "tracker" THEN (vbat.adc * 4900) \div 4095
    ELSE (vbat.adc * 10000) \div 2387

heltec_battery_percent(vbat) ==
    LET hits == {n \in 0..(Len(scaled_voltage) - 1) :
                    VbatAbove(vbat, scaled_voltage[n + 1])}
    IN  IF hits = {} THEN 0
        ELSE 100 - (CHOOSE n \in hits : \A m \in hits : n <= m)

\* ------------------------------------------------------------------------
\* Codec inputs: buffers as they can arrive from the radio
\* ------------------------------------------------------------------------
\* Number of field overwrites applied to a well-formed packet.
MaxEdits == 1

\* binary32 bit patterns, little-endian.
F_0 == <<0, 0, 0, 0>>
F_Neg0 == <<0, 0, 0, 128>>
F_1 == <<0, 0, 128, 63>>
F_NegHalf == <<0, 0, 0, 191>>
F_12_5 == <<0, 0, 72, 65>>
F_45_5 == <<0, 0, 54, 66>>
F_90 == <<0, 0, 180, 66>>
F_90_0001 == <<13, 0, 180, 66>>
F_Neg90 == <<0, 0, 180, 194>>
F_Neg90_0001 == <<13, 0, 180, 194>>
F_180 == <<0, 0, 52, 67>>
F_180_1 == <<154, 25, 52, 67>>
F_Neg180 == <<0, 0, 52, 195>>
F_Neg180_1 == <<154, 25, 52, 195>>
F_270 == <<0, 0, 135, 67>>
F_359_99 == <<184, 254, 179, 67>>
F_360 == <<0, 0, 180, 67>>
F_Inf == <<0, 0, 128, 127>>
F_NaN == <<0, 0, 192, 127>>

\* Storage of an input buffer: room for the longest size tried.
InputStorage(image) ==
    [i \in 1..(GnssPacketSize + 1) |->
        IF i <= Len(image) THEN image[i] ELSE 0]

BaseSensor ==
    InputStorage(SensorPacketImage(
        [nodeId |-> 5, messageCounter |-> 7, uptime |-> 60,
         batteryLevel |-> 81, batteryVoltage |-> 3700,
         analog |-> <<100, 200, 300, 400>>, boolean |-> 5]))
BaseGnss ==
    InputStorage(GnssPacketImage(
        [nodeId |-> 5, messageCounter |-> 7, uptime |-> 60,
         batteryLevel |-> 81, batteryVoltage |-> 3700,
         latitude |-> F_45_5, longitude |-> F_12_5, speed |-> F_1,
         hdop |-> 12, course |-> F_270]))

Poke(buf, off, bs) ==
    [i \in 1..Len(buf) |->
        IF i > off /\ i <= off + Len(bs) THEN bs[i - off] ELSE buf[i]]

Pokes ==
    {[off |-> OffMessageType, bytes |-> <<t>>] : t \in {0, 1, 2, 3, 255}}
    \cup {[off |-> OffNodeId, bytes |-> Bytes32(n)] : n \in {0, 256}}
    \cup {[off |-> OffBatteryLevel, bytes |-> <<b>>] :
            b \in {0, 100, 101, 255}}
    \cup {[off |-> OffBatteryVoltage, bytes |-> Bytes16(v)] :
            v \in {0, 1999, 4501, 65535}}
    \cup {[off |-> OffAnalog + 2 * i, bytes |-> Bytes16(a)] :
            i \in {0, 3}, a \in {4095, 4096}}
    \cup {[off |-> OffLatitude, bytes |-> f] :
            f \in {F_0, F_90, F_90_0001, F_Neg90, F_Neg90_0001, F_NaN}}
    \cup {[off |-> OffLongitude, bytes |-> f] :
            f \in {F_180, F_180_1, F_Neg180, F_Neg180_1, F_NaN}}
    \cup {[off |-> OffSpeed, bytes |-> f] :
            f \in {F_0, F_Neg0, F_NegHalf, F_Inf, F_NaN}}
    \cup {[off |-> OffCourse, bytes |-> f] :
            f \in {F_0, F_359_99, F_360, F_NegHalf, F_NaN}}
    \cup {[off |-> OffHdop, bytes |-> <<h>>] : h \in {0, 200, 201, 255}}

RECURSIVE EditedBy(_)
EditedBy(n) ==
    IF n = 0 THEN {BaseSensor, BaseGnss}
    ELSE LET prev == EditedBy(n - 1)
         IN  prev \cup {Poke(b, p.off, p.bytes) : b \in prev, p \in Pokes}

SampleSizes ==
    {0, 1, SensorPacketSize - 1, SensorPacketSize, SensorPacketSize + 1,
     GnssPacketSize - 1, GnssPacketSize, GnssPacketSize + 1}

\* Mutant: the location fields of a packet without a fix are marked
\* unknown (hdop 255) instead of zero.
SensorSentinel_init_gnss_packet_HdopUnknown(counter, dev) ==
    LET vbat == [board |-> dev.board, adc |-> dev.adc]
        header == [nodeId |-> dev.nodeId, messageCounter |-> counter,
                   uptime |-> dev.millis \div 1000,
                   batteryLevel |-> heltec_battery_percent(vbat),
                   batteryVoltage |-> MilliVolts(vbat)]
        noFix == [latitude |-> F_0, longitude |-> F_0, speed |-> F_0,
                  hdop |-> 255, course |-> F_0]
        fix == [latitude |-> dev.gps.lat, longitude |-> dev.gps.lng,
                speed |-> dev.gps.kmph, hdop |-> dev.gps.hdop10,
                course |-> dev.gps.deg]
        located == dev.gnssCompiled /\ dev.gps.valid
    IN  [ret |-> located,
         packet |-> GnssPacketImage(
                        header @@ (IF located THEN fix ELSE noFix))]

\* SensorSentinel_init_gnss_packet on a non-null packet: the return value
\* and the contents of the packet afterwards.  dev.gnssCompiled says
\* whether the build defines SensorSentinel_GNSS.
SensorSentinel_init_gnss_packet(counter, dev) ==
    LET vbat == [board |-> dev.board, adc |-> dev.adc]
        header == [nodeId |-> dev.nodeId, messageCounter |-> counter,
                   uptime |-> dev.millis \div 1000,
                   batteryLevel |-> heltec_battery_percent(vbat),
                   batteryVoltage |-> MilliVolts(vbat)]
        noFix == [latitude |-> F_0, longitude |-> F_0, speed |-> F_0,
                  hdop |-> 0, course |-> F_0]
        fix == [latitude |-> dev.gps.lat, longitude |-> dev.gps.lng,
                speed |-> dev.gps.kmph, hdop |-> dev.gps.hdop10,
                course |-> dev.gps.deg]
        located == dev.gnssCompiled /\ dev.gps.valid
    IN  [ret |-> located,
         packet |-> GnssPacketImage(
                        header @@ (IF located THEN fix ELSE noFix))]

\* ------------------------------------------------------------------------
\* Duplicate-suppression caches
\* ------------------------------------------------------------------------
\* PACKET_CACHE_SIZE of the gateway sketch and of the repeater sketch.
GATEWAY_PACKET_CACHE_SIZE == 50
REPEATER_PACKET_CACHE_SIZE == 10

\* A cache entry; the timestamp member is written and never read, it is
\* left out.  memset(cache, 0, ...) makes every entry ZeroEntry.
ZeroEntry == [nodeId |-> 0, messageCounter |-> 0]
ZeroedCache(size) == [i \in 1..size |-> ZeroEntry]

\* Mutant: the scan compares the node id only.
isPacketAlreadyProcessed_NodeOnly(nodeId, messageCounter) ==
    \E i \in 0..(GATEWAY_PACKET_CACHE_SIZE - 1) :
        receivedCache[i + 1].nodeId = nodeId

\* Gateway: linear scan of receivedCache.
isPacketAlreadyProcessed(nodeId, messageCounter) ==
    \E i \in 0..(GATEWAY_PACKET_CACHE_SIZE - 1) :
        /\ receivedCache[i + 1].nodeId = nodeId
        /\ receivedCache[i + 1].messageCounter = messageCounter

\* Mutant: the cursor is not advanced.
addToReceivedCache_NoAdvance(nodeId, messageCounter) ==
    /\ receivedCache' =
         [receivedCache EXCEPT ![receivedCacheIndex + 1] =
             [nodeId |-> nodeId, messageCounter |-> messageCounter]]
    /\ receivedCacheIndex' = receivedCacheIndex

\* Gateway: write at the cursor, advance it modulo the capacity.
addToReceivedCache(nodeId, messageCounter) ==
    /\ receivedCache' =
         [receivedCache EXCEPT ![receivedCacheIndex + 1] =
             [nodeId |-> nodeId, messageCounter |-> messageCounter]]
    /\ receivedCacheIndex' =
         (receivedCacheIndex + 1) % GATEWAY_PACKET_CACHE_SIZE

\* Mutant: the scan stops one slot early.
shouldRepeatPacket_OffByOne(nodeId, messageCounter) ==
    ~\E i \in 0..(REPEATER_PACKET_CACHE_SIZE - 2) :
        /\ packetCache[i + 1].nodeId = nodeId
        /\ packetCache[i + 1].messageCounter = messageCounter

\* Repeater: linear scan of packetCache, false when the pair is found.
shouldRepeatPacket(nodeId, messageCounter) ==
    ~\E i \in 0..(REPEATER_PACKET_CACHE_SIZE - 1) :
        /\ packetCache[i + 1].nodeId = nodeId
        /\ packetCache[i + 1].messageCounter = messageCounter

\* Mutant: every pair is written to the first slot.
addToCache_SlotZero(nodeId, messageCounter) ==
    /\ packetCache' =
         [packetCache EXCEPT ![1] =
             [nodeId |-> nodeId, messageCounter |-> messageCounter]]
    /\ cacheIndex' = cacheIndex

\* Repeater: write at the cursor, advance it modulo the capacity.
addToCache(nodeId, messageCounter) ==
    /\ packetCache' =
         [packetCache EXCEPT ![cacheIndex + 1] =
             [nodeId |-> nodeId, messageCounter |-> messageCounter]]
    /\ cacheIndex' = (cacheIndex + 1) % REPEATER_PACKET_CACHE_SIZE

\* The cache of the sketch this device runs, behind the spec's names.
capacity ==
    IF role = "gateway" THEN GATEWAY_PACKET_CACHE_SIZE
    ELSE REPEATER_PACKET_CACHE_SIZE
seen(nodeId, messageCounter) ==
    IF role = "gateway" THEN isPacketAlreadyProcessed(nodeId, messageCounter)
    ELSE ~shouldRepeatPacket(nodeId, messageCounter)
remember(nodeId, messageCounter) ==
    IF role = "gateway"
    THEN addToReceivedCache(nodeId, messageCounter)
            /\ UNCHANGED <<packetCache, cacheIndex>>
    ELSE addToCache(nodeId, messageCounter)
            /\ UNCHANGED <<receivedCache, receivedCacheIndex>>

\* setup(): both sketches memset their cache; the cursors start at 0.
CacheSetup ==
    /\ role \in {"gateway", "repeater"}
    /\ receivedCache = ZeroedCache(GATEWAY_PACKET_CACHE_SIZE)
    /\ receivedCacheIndex = 0
    /\ packetCache = ZeroedCache(REPEATER_PACKET_CACHE_SIZE)
    /\ cacheIndex = 0

\* ------------------------------------------------------------------------
\* Cache specification: any sequence of remember calls
\* ------------------------------------------------------------------------
\* Remember calls with a pair chosen from ChosenPairs.
MaxChosen == 1
\* Remember calls with fresh pairs, beyond the capacity of the cache.
MaxBeyond == 2

ChosenPairs == {[nodeId |-> 5, messageCounter |-> c] : c \in {1, 2}}
\* Fresh pairs come from one node (9) with a running counter.
FreshPair == [nodeId |-> 9, messageCounter |-> fresh]

HistInit ==
    /\ calls = 0
    /\ last = ZeroEntry
    /\ since = [p \in ChosenPairs |-> 0 - 1]
    /\ arbitrary = 0
    /\ fresh = 0
    /\ failed = {}

\* History: how the forward / repeat of pair p ended.
Ended(p, ok) ==
    failed' = IF p \in ChosenPairs /\ ~ok THEN {p} ELSE {}

Remembered(p) ==
    /\ calls' = calls + 1
    /\ last' = p
    /\ since' = [q \in ChosenPairs |->
                    IF q = p THEN 0
                    ELSE IF since[q] < 0 THEN since[q] ELSE since[q] + 1]

\* The transceiver sketch right after boot.
TrackerBoot ==
    /\ now = 0
    /\ lastTxTime = 0
    /\ minimumPause = 0
    /\ pendingGpsTransmit = FALSE
    /\ gpsInitialized = FALSE
    /\ txLog = <<>>

\* The sender sketch has sent nothing; its counters hold sc and gc.
SenderBoot(sc, gc) ==
    /\ sensorPacketCounter = sc
    /\ gnssPacketCounter = gc
    /\ txPacket = <<>>
    /\ txOk = TRUE
    /\ sends = 0
    /\ sentLog = [sensor |-> <<>>, gnss |-> <<>>]

\* A uint32 millisecond count as its two 16-bit halves.
Zero32 == [hi |-> 0, lo |-> 0]

\* The MQTT module is not used: helper build, no call made.
MqttIdle ==
    /\ mqttVariant = "helper" /\ mqttUserSet = FALSE
    /\ wifiConnected = TRUE /\ mqttConnected = FALSE
    /\ millis = Zero32 /\ lastMqttConnectionAttempt = Zero32
    /\ clock = 0 /\ attemptLog = <<>> /\ mqttCalls = 0
    /\ mqttStatus = "none" /\ publishCalls = <<>>

\* The device runs neither the transceiver sketch nor the sender's send
\* functions nor the MQTT module.
SendIdle ==
    /\ heltecGnss = FALSE /\ TrackerBoot
    /\ SenderBoot(<<0, 0, 0, 0>>, <<0, 0, 0, 0>>)
    /\ MqttIdle

\* No packet is being built: the device reports nothing of interest.
BuilderIdle ==
    /\ device = [nodeId |-> 7, millis |-> 0, board |-> "tracker",
                 adc |-> 0, gnssCompiled |-> FALSE,
                 gps |-> [valid |-> FALSE, lat |-> <<0, 0, 0, 0>>,
                          lng |-> <<0, 0, 0, 0>>, kmph |-> <<0, 0, 0, 0>>,
                          deg |-> <<0, 0, 0, 0>>, hdop10 |-> 0]]
    /\ gnssPacket = [i \in 1..GnssPacketSize |-> 170]
    /\ hasValidFix = FALSE

CodecIdle ==
    /\ data = NULL /\ dataSize = 0 /\ isValid = FALSE /\ codecPc = "call"
    /\ outputPacket = NULL /\ outputSize = 0 /\ parseResult = 0
    /\ messageType = 0 /\ packetSize = 0
    /\ BuilderIdle

\* Callback pointers: the string callback and the binary callback a sketch
\* passes to the subscribe functions.
StringCallback == <<"onStringPacket">>
BinaryCallback == <<"onBinaryPacketReceived">>

\* State after setup(): subscribed (handler attached, radio receiving),
\* nothing received yet, counters zero.
PipeSetup ==
    /\ pc = "loop"
    /\ packetCallback = NULL
    /\ binaryPacketCallback = BinaryCallback
    /\ packetReceived = FALSE
    /\ dio1Action = TRUE
    /\ radioMode = "rx"
    /\ radioPacket = <<>>
    /\ radioCrcOk = TRUE
    /\ binaryPacketBuffer = <<>>
    /\ packetBuffer = <<>>
    /\ packetsRepeated = 0
    /\ out = <<>>
    /\ sightings = [p \in ChosenPairs |-> 0]

CacheInit == CacheSetup /\ HistInit /\ CodecIdle /\ PipeSetup /\ SendIdle

RememberChosen ==
    \E p \in ChosenPairs :
        /\ arbitrary < MaxChosen
        /\ remember(p.nodeId, p.messageCounter)
        /\ Remembered(p)
        /\ arbitrary' = arbitrary + 1
        /\ UNCHANGED <<fresh, failed, role, codecVars, pipeVars, sendVars>>

RememberFresh ==
    /\ fresh < capacity + MaxBeyond
    /\ remember(FreshPair.nodeId, FreshPair.messageCounter)
    /\ Remembered(FreshPair)
    /\ fresh' = fresh + 1
    /\ UNCHANGED <<arbitrary, failed, role, codecVars, pipeVars, sendVars>>

CacheNext == RememberChosen \/ RememberFresh

SpecCache == CacheInit /\ [][CacheNext]_vars

\* ------------------------------------------------------------------------
\* Codec specification: validate applied to one input
\* ------------------------------------------------------------------------
\* The caller's output buffer before the call: every byte holds 0xAA.
OutputStorage == [i \in 1..(GnssPacketSize + 1) |-> 170]
OutputSizes ==
    {0, SensorPacketSize - 1, SensorPacketSize, GnssPacketSize - 1,
     GnssPacketSize, GnssPacketSize + 1}

CodecInit ==
    /\ \/ data = NULL /\ dataSize \in {0, SensorPacketSize}
       \/ data \in EditedBy(MaxEdits) /\ dataSize \in SampleSizes
    /\ isValid = FALSE
    /\ codecPc = "call"
    /\ \/ outputPacket = NULL /\ outputSize = GnssPacketSize
       \/ outputPacket = OutputStorage /\ outputSize \in OutputSizes
    /\ parseResult = 0
    /\ messageType = 0 /\ packetSize = 0
    /\ BuilderIdle
    /\ CacheSetup /\ HistInit /\ PipeSetup /\ SendIdle

Validate ==
    /\ codecPc = "call"
    /\ isValid' = SensorSentinel_validate_packet(data, dataSize)
    /\ codecPc' = "returned"
    /\ UNCHANGED <<data, dataSize, outputPacket, outputSize, parseResult,
                   messageType, packetSize, builderVars, role, cacheVars,
                   histVars, pipeVars, sendVars>>

Parse ==
    /\ codecPc = "call"
    /\ LET r == SensorSentinel_parse_packet(data, dataSize, outputPacket,
                                            outputSize)
       IN  parseResult' = r.ret /\ outputPacket' = r.output
    /\ codecPc' = "parsed"
    /\ UNCHANGED <<data, dataSize, isValid, outputSize, messageType,
                   packetSize, builderVars, role, cacheVars, histVars,
                   pipeVars, sendVars>>

CodecNext == Validate \/ Parse

SpecCodec == CodecInit /\ [][CodecNext]_vars

\* ------------------------------------------------------------------------
\* Builder specification: init_gnss_packet called once
\* ------------------------------------------------------------------------
\* What the GNSS receiver reports: lat/lng/kmph/deg as binary32 bytes,
\* hdop10 is (uint8_t)(hdop * 10).
GpsReports ==
    {[valid |-> FALSE, lat |-> F_0, lng |-> F_0, kmph |-> F_0,
      deg |-> F_0, hdop10 |-> 0],
     \* a receiver that lost its fix still holds its last position
     [valid |-> FALSE, lat |-> F_45_5, lng |-> F_12_5, kmph |-> F_1,
      deg |-> F_270, hdop10 |-> 12],
     [valid |-> TRUE, lat |-> F_45_5, lng |-> F_12_5, kmph |-> F_1,
      deg |-> F_270, hdop10 |-> 12],
     \* a fix with few satellites in view: HDOP 20.0 and HDOP 25.0
     [valid |-> TRUE, lat |-> F_45_5, lng |-> F_12_5, kmph |-> F_1,
      deg |-> F_270, hdop10 |-> 200],
     [valid |-> TRUE, lat |-> F_45_5, lng |-> F_12_5, kmph |-> F_1,
      deg |-> F_270, hdop10 |-> 250]}

Devices ==
    [nodeId : {0, 5, 2147483647}, millis : {0, 61500},
     board : {"tracker", "other"}, adc : {0, 2600, 3300, 4095},
     gnssCompiled : BOOLEAN, gps : GpsReports]

BuilderInit ==
    /\ device \in Devices
    /\ gnssPacket = [i \in 1..GnssPacketSize |-> 170]
    /\ hasValidFix = FALSE
    /\ data = NULL /\ dataSize = 0 /\ isValid = FALSE /\ codecPc = "call"
    /\ outputPacket = NULL /\ outputSize = 0 /\ parseResult = 0
    /\ messageType = 0 /\ packetSize = 0
    /\ CacheSetup /\ HistInit /\ PipeSetup /\ SendIdle

InitGnssPacket ==
    /\ codecPc = "call"
    /\ \E counter \in {0, 1, 70000} :
          LET r == SensorSentinel_init_gnss_packet(counter, device)
          IN  gnssPacket' = r.packet /\ hasValidFix' = r.ret
    /\ codecPc' = "built"
    /\ UNCHANGED <<data, dataSize, isValid, outputPacket, outputSize,
                   parseResult, messageType, packetSize, device, role,
                   cacheVars, histVars, pipeVars, sendVars>>

SpecBuilder == BuilderInit /\ [][InitGnssPacket]_vars

\* ------------------------------------------------------------------------
\* Transceiver specification: loop() of tracker_rx_tx.cpp
\* ------------------------------------------------------------------------
\* Times are in milliseconds.  The loop is followed up to MaxTime.
MaxTime == 45000
\* Time between the start of two loop iterations, beyond what the previous
\* iteration took.
LoopGaps == {5000, 10001}
\* Measured duration of radio.transmit.
TxDurations == {50, 100}

\* transmitPacket: transmit, measure, set the pause and lastTxTime.  s is
\* [now, lastTxTime, minimumPause, pending, gpsInit, log]; d is what the
\* transmission takes.
transmitPacket(s, d) ==
    [s EXCEPT !.now = s.now + d,
              !.lastTxTime = s.now + d,
              !.minimumPause = d * 100,
              !.log = (IF Len(s.log) = 0 THEN <<>> ELSE <<s.log[Len(s.log)]>>)
                          \o <<[start |-> s.now, end |-> s.now + d,
                                pause |-> d * 100]>>]

\* One iteration of loop(); PAUSE is 10 s.  Reception (rxFlag) and the
\* display are not modelled.
TrackerLoop ==
    \E dt \in LoopGaps, buttonPressed \in BOOLEAN, sats \in {0, 5},
       d1 \in TxDurations, d2 \in TxDurations :
        /\ now + dt <= MaxTime
        /\ LET top == now + dt
               txLegal == top > lastTxTime + minimumPause
               timeToTransmit == top - lastTxTime > 10 * 1000
               s0 == [now |-> top, lastTxTime |-> lastTxTime,
                      minimumPause |-> minimumPause,
                      pending |-> pendingGpsTransmit,
                      gpsInit |-> gpsInitialized, log |-> txLog,
                      returned |-> FALSE]
               \* button handling
               s1 == IF heltecGnss
                     THEN IF ~buttonPressed THEN s0
                          ELSE LET g == IF s0.gpsInit THEN s0
                                        ELSE [s0 EXCEPT
                                                !.gpsInit = TRUE,
                                                !.now = s0.now + 1000]
                               IN  IF sats = 0
                                   THEN [g EXCEPT !.now = g.now + 2000,
                                                  !.returned = TRUE]
                                   ELSE [g EXCEPT !.pending = TRUE,
                                                  !.now = g.now + 1000]
                     ELSE IF buttonPressed /\ txLegal
                          THEN transmitPacket(s0, d1)
                          ELSE s0
               \* pending GPS transmission
               s2 == IF s1.returned THEN s1
                     ELSE IF s1.pending /\ txLegal
                     THEN [transmitPacket(s1, d1) EXCEPT !.pending = FALSE]
                     ELSE s1
               \* automatic transmission
               s3 == IF s2.returned THEN s2
                     ELSE IF timeToTransmit /\ txLegal
                     THEN transmitPacket(s2, d2)
                     ELSE s2
           IN  /\ now' = s3.now
               /\ lastTxTime' = s3.lastTxTime
               /\ minimumPause' = s3.minimumPause
               /\ pendingGpsTransmit' = s3.pending
               /\ gpsInitialized' = s3.gpsInit
               /\ txLog' = s3.log
        /\ UNCHANGED <<heltecGnss, senderVars, mqttVars, subVars, codecVars,
                       role, cacheVars,
                       histVars, pipeVars>>

TrackerInit ==
    /\ heltecGnss \in BOOLEAN
    /\ TrackerBoot
    /\ SenderBoot(<<0, 0, 0, 0>>, <<0, 0, 0, 0>>)
    /\ MqttIdle
    /\ CacheSetup /\ HistInit /\ CodecIdle /\ PipeSetup

SpecTracker == TrackerInit /\ [][TrackerLoop]_vars

\* ------------------------------------------------------------------------
\* Sender specification: sendSensorPacket / sendGnssPacket
\* ------------------------------------------------------------------------
\* Calls of the two send functions followed.
MaxSends == 4

\* counter++ on a uint32_t kept as 4 little-endian bytes: wraps at 2^32.
Inc32(b) ==
    LET c1 == IF b[1] = 255 THEN 1 ELSE 0
        c2 == IF c1 = 1 /\ b[2] = 255 THEN 1 ELSE 0
        c3 == IF c2 = 1 /\ b[3] = 255 THEN 1 ELSE 0
    IN  <<(b[1] + 1) % 256, (b[2] + c1) % 256, (b[3] + c2) % 256,
          (b[4] + c3) % 256>>

\* SensorSentinel_init_sensor_packet on a non-null packet: the packet
\* afterwards.  The battery is not measured (batteryVolts is 0.0f).
SensorSentinel_init_sensor_packet(counter, dev, pins) ==
    Poke(SensorPacketImage(
             [nodeId |-> dev.nodeId, messageCounter |-> 0,
              uptime |-> dev.millis \div 1000,
              batteryLevel |->
                  heltec_battery_percent([board |-> dev.board, adc |-> 0]),
              batteryVoltage |-> 0,
              analog |-> pins.analog, boolean |-> pins.boolean]),
         OffMessageCounter, counter)

\* What read_all_pins can report.
PinReadings ==
    {[analog |-> <<100, 200, 300, 400>>, boolean |-> 5],
     [analog |-> <<0, 4095, 0, 0>>, boolean |-> 255]}

Logged(log, counter, ok) ==
    (IF Len(log) = 0 THEN <<>> ELSE <<log[Len(log)]>>)
        \o <<[counter |-> counter, ok |-> ok]>>

\* Mutant: the counter is advanced only after a successful transmission.
SendSensorPacket_CountOnSuccess ==
    /\ sends < MaxSends
    /\ \E pins \in PinReadings, state \in {"ERR_NONE", "ERR_TX_TIMEOUT"} :
          LET image == SensorSentinel_init_sensor_packet(
                           sensorPacketCounter, device, pins)
          IN  /\ txPacket' = image
              /\ txOk' = (state = "ERR_NONE")
              /\ sensorPacketCounter' =
                    IF state = "ERR_NONE" THEN Inc32(sensorPacketCounter)
                    ELSE sensorPacketCounter
              /\ sentLog' =
                    [sentLog EXCEPT !.sensor =
                        Logged(@, <<image[6], image[7], image[8], image[9]>>,
                               state = "ERR_NONE")]
    /\ sends' = sends + 1
    /\ UNCHANGED <<gnssPacketCounter, trackerVars, mqttVars, subVars, codecVars,
                   role, cacheVars, histVars, pipeVars>>

\* sendSensorPacket: build the packet with sensorPacketCounter++, transmit
\* it; a failed transmission only changes what is displayed.
SendSensorPacket ==
    /\ sends < MaxSends
    /\ \E pins \in PinReadings, state \in {"ERR_NONE", "ERR_TX_TIMEOUT"} :
          LET image == SensorSentinel_init_sensor_packet(
                           sensorPacketCounter, device, pins)
          IN  /\ txPacket' = image
              /\ txOk' = (state = "ERR_NONE")
              /\ sensorPacketCounter' = Inc32(sensorPacketCounter)
              /\ sentLog' =
                    [sentLog EXCEPT !.sensor =
                        Logged(@, <<image[6], image[7], image[8], image[9]>>,
                               state = "ERR_NONE")]
    /\ sends' = sends + 1
    /\ UNCHANGED <<gnssPacketCounter, trackerVars, mqttVars, subVars, codecVars,
                   role, cacheVars, histVars, pipeVars>>

\* sendGnssPacket: build the packet with gnssPacketCounter++, transmit it.
SendGnssPacket ==
    /\ sends < MaxSends
    /\ \E state \in {"ERR_NONE", "ERR_TX_TIMEOUT"} :
          LET image == Poke(SensorSentinel_init_gnss_packet(0, device).packet,
                            OffMessageCounter, gnssPacketCounter)
          IN  /\ txPacket' = image
              /\ txOk' = (state = "ERR_NONE")
              /\ gnssPacketCounter' = Inc32(gnssPacketCounter)
              /\ sentLog' =
                    [sentLog EXCEPT !.gnss =
                        Logged(@, <<image[6], image[7], image[8], image[9]>>,
                               state = "ERR_NONE")]
    /\ sends' = sends + 1
    /\ UNCHANGED <<sensorPacketCounter, trackerVars, mqttVars, subVars, codecVars,
                   role, cacheVars, histVars, pipeVars>>

\* The counters start at 0; a device that has been sending for long has
\* them close to the wrap.
CounterStarts == {<<0, 0, 0, 0>>, <<254, 255, 255, 255>>}

SenderInit ==
    /\ \E sc \in CounterStarts, gc \in CounterStarts : SenderBoot(sc, gc)
    /\ heltecGnss = FALSE /\ TrackerBoot /\ MqttIdle
    /\ CacheSetup /\ HistInit /\ CodecIdle /\ PipeSetup

SenderNext == SendSensorPacket \/ SendGnssPacket

SpecSender == SenderInit /\ [][SenderNext]_vars

\* ------------------------------------------------------------------------
\* Forward specification: mqtt_forward_packet called once
\* ------------------------------------------------------------------------
ForwardInit ==
    /\ \/ data = NULL /\ dataSize \in {0, SensorPacketSize}
       \/ data \in EditedBy(MaxEdits) /\ dataSize \in SampleSizes
    /\ isValid = FALSE
    /\ codecPc = "call"
    /\ outputPacket = NULL /\ outputSize = 0 /\ parseResult = 0
    /\ messageType = 0 /\ packetSize = 0
    /\ BuilderIdle
    /\ heltecGnss = FALSE /\ TrackerBoot
    /\ SenderBoot(<<0, 0, 0, 0>>, <<0, 0, 0, 0>>)
    /\ mqttVariant = "helper" /\ mqttUserSet = FALSE
    /\ wifiConnected = TRUE /\ mqttConnected \in BOOLEAN
    /\ millis = Zero32 /\ lastMqttConnectionAttempt = Zero32
    /\ clock = 0 /\ attemptLog = <<>> /\ mqttCalls = 0
    /\ mqttStatus = "none" /\ publishCalls = <<>>
    /\ CacheSetup /\ HistInit /\ PipeSetup

MqttForwardPacket ==
    /\ codecPc = "call"
    /\ \E published \in BOOLEAN :
          LET r == SensorSentinel_mqtt_forward_packet(
                       data, dataSize, mqttConnected, published)
          IN  mqttStatus' = r.status /\ publishCalls' = r.publish
    /\ codecPc' = "forwarded"
    /\ UNCHANGED <<data, dataSize, isValid, outputPacket, outputSize,
                   parseResult, messageType, packetSize, builderVars,
                   trackerVars, senderVars, subVars, mqttVariant,
                   mqttUserSet,
                   wifiConnected, mqttConnected, millis,
                   lastMqttConnectionAttempt, clock, attemptLog, mqttCalls,
                   role, cacheVars, histVars, pipeVars>>

SpecForward == ForwardInit /\ [][MqttForwardPacket]_vars

\* ------------------------------------------------------------------------
\* MQTT connection specification: mqtt_connect / mqtt_maintain
\* ------------------------------------------------------------------------
\* Calls of connect and maintain followed.
MaxMqttCalls == 3

\* mqttConfig.connectionInterval (helper), mqttConnectionInterval (gateway).
connectionInterval == 5000

\* Time between the return of one call and the next call.
CallGaps == {1, 4999, 5000, 5001}
\* What mqttClient.connect takes: a refused connection, a timeout.
ConnectDurations == {20, 3000}

\* unsigned long arithmetic on two 16-bit halves: t + d for d < 65536, and
\* the test a - b < k for k <= 65536, both modulo 2^32.
Add32(t, d) ==
    [hi |-> (t.hi + (t.lo + d) \div 65536) % 65536,
     lo |-> (t.lo + d) % 65536]
Sub32Below(a, b, k) ==
    LET borrow == IF a.lo < b.lo THEN 1 ELSE 0
    IN  /\ (a.hi - b.hi - borrow) % 65536 = 0
        /\ (a.lo - b.lo) % 65536 < k

\* The module's state s is [wifi, connected, millis, last, clock, log].
\* delay(d).
Delay(s, d) ==
    [s EXCEPT !.millis = Add32(s.millis, d), !.clock = s.clock + d]

\* mqttClient.connect: starts now, takes d, ends connected or not.
Attempt(s, ok, d) ==
    [Delay(s, d) EXCEPT
        !.connected = ok,
        !.log = (IF Len(s.log) = 0 THEN <<>> ELSE <<s.log[Len(s.log)]>>)
                    \o <<[start |-> s.clock, ok |-> ok]>>]

\* SensorSentinel_mqtt_connect of mqtt_helper.cpp; e is what the broker
\* does: whether the first and the second connect of the call succeed, and
\* what a connect takes.
helper_mqtt_connect(s, e) ==
    IF ~s.wifi THEN s
    ELSE IF s.connected THEN s
    ELSE IF Sub32Below(s.millis, s.last, connectionInterval) THEN s
    ELSE Attempt([s EXCEPT !.last = s.millis], e.ok1, e.d)

\* SensorSentinel_mqtt_maintain of mqtt_helper.cpp.
helper_mqtt_maintain(s, e) ==
    IF ~s.connected THEN helper_mqtt_connect(s, e) ELSE s

\* SensorSentinel_mqtt_connect of mqtt_gateway.cpp: with a user name
\* configured a failed connect is retried without credentials after
\* 500 ms; a failure is displayed for 2 s.
gateway_mqtt_connect(s, userSet, e) ==
    IF ~s.wifi THEN s
    ELSE IF s.connected THEN s
    ELSE IF Sub32Below(s.millis, s.last, connectionInterval)
              /\ s.last # Zero32
    THEN s
    ELSE LET first == Attempt([s EXCEPT !.last = s.millis], e.ok1, e.d)
             final == IF userSet /\ ~e.ok1
                      THEN Attempt(Delay(first, 500), e.ok2, e.d)
                      ELSE first
         IN  IF final.connected THEN final ELSE Delay(final, 2000)

\* SensorSentinel_mqtt_maintain of mqtt_gateway.cpp.
gateway_mqtt_maintain(s, userSet, e) ==
    IF ~s.wifi THEN s
    ELSE IF s.connected THEN s
    ELSE IF ~Sub32Below(s.millis, s.last, connectionInterval + 1)
    THEN gateway_mqtt_connect(s, userSet, e)
    ELSE s

SensorSentinel_mqtt_connect(s, e) ==
    IF mqttVariant = "helper" THEN helper_mqtt_connect(s, e)
    ELSE gateway_mqtt_connect(s, mqttUserSet, e)

SensorSentinel_mqtt_maintain(s, e) ==
    IF mqttVariant = "helper" THEN helper_mqtt_maintain(s, e)
    ELSE gateway_mqtt_maintain(s, mqttUserSet, e)

BrokerReplies == [ok1 : BOOLEAN, ok2 : BOOLEAN, d : ConnectDurations]

\* The module's state when a call is made dt after the previous one.
MqttState(dt) ==
    Delay([wifi |-> wifiConnected, connected |-> mqttConnected,
           millis |-> millis, last |-> lastMqttConnectionAttempt,
           clock |-> clock, log |-> attemptLog], dt)

MqttReturned(s) ==
    /\ mqttConnected' = s.connected
    /\ millis' = s.millis
    /\ lastMqttConnectionAttempt' = s.last
    /\ clock' = s.clock
    /\ attemptLog' = s.log
    /\ mqttCalls' = mqttCalls + 1
    /\ UNCHANGED <<mqttVariant, mqttUserSet, wifiConnected, mqttStatus,
                   publishCalls, trackerVars, senderVars, subVars,
                   codecVars, role,
                   cacheVars, histVars, pipeVars>>

\* A call of SensorSentinel_mqtt_connect (setup, or a sketch of its own).
MqttConnect ==
    \E dt \in CallGaps, e \in BrokerReplies :
        /\ mqttCalls < MaxMqttCalls
        /\ MqttReturned(SensorSentinel_mqtt_connect(MqttState(dt), e))

\* A call of SensorSentinel_mqtt_maintain (every loop iteration).
MqttMaintain ==
    \E dt \in CallGaps, e \in BrokerReplies :
        /\ mqttCalls < MaxMqttCalls
        /\ MqttReturned(SensorSentinel_mqtt_maintain(MqttState(dt), e))

\* The connection to the broker is lost.
ConnectionLost ==
    /\ mqttConnected
    /\ mqttConnected' = FALSE
    /\ UNCHANGED <<mqttVariant, mqttUserSet, wifiConnected, millis,
                   lastMqttConnectionAttempt, clock, attemptLog, mqttCalls,
                   mqttStatus, publishCalls, trackerVars, senderVars,
                   subVars,
                   codecVars, role, cacheVars, histVars, pipeVars>>

\* WiFi comes up or goes down (the MQTT connection goes with it).
WifiChanges ==
    /\ mqttCalls < MaxMqttCalls
    /\ wifiConnected' = ~wifiConnected
    /\ mqttConnected' = FALSE
    /\ UNCHANGED <<mqttVariant, mqttUserSet, millis,
                   lastMqttConnectionAttempt, clock, attemptLog, mqttCalls,
                   mqttStatus, publishCalls, trackerVars, senderVars,
                   subVars,
                   codecVars, role, cacheVars, histVars, pipeVars>>

\* After setup: nothing attempted yet; millis() is a few seconds, or
\* (WiFi having been down since boot) about to wrap.
MqttInit ==
    /\ mqttVariant \in {"helper", "gateway"}
    /\ mqttUserSet \in BOOLEAN
    /\ wifiConnected = TRUE /\ mqttConnected = FALSE
    /\ millis \in {[hi |-> 0, lo |-> 3000], [hi |-> 65535, lo |-> 60536]}
    /\ lastMqttConnectionAttempt = Zero32
    /\ clock = 0 /\ attemptLog = <<>> /\ mqttCalls = 0
    /\ mqttStatus = "none" /\ publishCalls = <<>>
    /\ heltecGnss = FALSE /\ TrackerBoot
    /\ SenderBoot(<<0, 0, 0, 0>>, <<0, 0, 0, 0>>)
    /\ CacheSetup /\ HistInit /\ CodecIdle /\ PipeSetup

MqttNext == MqttConnect \/ MqttMaintain \/ ConnectionLost \/ WifiChanges

SpecMqtt == MqttInit /\ [][MqttNext]_vars

\* ------------------------------------------------------------------------
\* Size specification: get_packet_size applied to one type byte
\* ------------------------------------------------------------------------
SizeInit ==
    /\ messageType \in Byte
    /\ packetSize = 0
    /\ data = NULL /\ dataSize = 0 /\ isValid = FALSE /\ codecPc = "call"
    /\ outputPacket = NULL /\ outputSize = 0 /\ parseResult = 0
    /\ BuilderIdle
    /\ CacheSetup /\ HistInit /\ PipeSetup /\ SendIdle

GetPacketSize ==
    /\ codecPc = "call"
    /\ packetSize' = SensorSentinel_get_packet_size(messageType)
    /\ codecPc' = "sized"
    /\ UNCHANGED <<data, dataSize, isValid, outputPacket, outputSize,
                   parseResult, messageType, builderVars, role, cacheVars,
                   histVars, pipeVars, sendVars>>

SpecSize == SizeInit /\ [][GetPacketSize]_vars

\* ------------------------------------------------------------------------
\* Receive paths: radio, process_packets, gateway and repeater callbacks
\* ------------------------------------------------------------------------
\* The id of this device (derived from its MAC address, non-zero).
SensorSentinel_generate_node_id == 7

\* Header accessors: nodeId and messageCounter sit at the same offsets in
\* both packet types.
SensorSentinel_extract_node_id_from_packet(buf) == U32(buf, OffNodeId)
SensorSentinel_get_message_counter_from_packet(buf) ==
    U32(buf, OffMessageCounter)

PairOf(buf) ==
    [nodeId |-> SensorSentinel_extract_node_id_from_packet(buf),
     messageCounter |-> SensorSentinel_get_message_counter_from_packet(buf)]

Event(op, p) ==
    [op |-> op, nodeId |-> p.nodeId, messageCounter |-> p.messageCounter]

\* The event of a step that is handed the buffer data of n bytes.
Handed(e, buf, n) == e @@ [data |-> buf, length |-> n]

\* What radio.transmit returns.
TransmitStates == {"ERR_NONE", "ERR_TX_TIMEOUT"}

\* A Sensor packet as a sender with the given (nodeId, counter) transmits it.
PacketOf(p) ==
    SensorPacketImage(
        [nodeId |-> p.nodeId, messageCounter |-> p.messageCounter,
         uptime |-> 60, batteryLevel |-> 81, batteryVoltage |-> 3700,
         analog |-> <<100, 200, 300, 400>>, boolean |-> 5])

\* The packet re-received as a duplicate in the scenarios.
ReplayPair == [nodeId |-> 5, messageCounter |-> 1]
\* The echo of a packet this device has sent itself.
OwnPair ==
    [nodeId |-> SensorSentinel_generate_node_id, messageCounter |-> 3]
\* A reception that fails validation: nodeId 0, and messageCounter 0 as in
\* a never-written cache slot.
InvalidPacket == PacketOf([nodeId |-> 0, messageCounter |-> 0])

Saw(p) ==
    sightings' = [q \in ChosenPairs |->
                    IF q = p /\ sightings[q] < 2 THEN sightings[q] + 1
                    ELSE sightings[q]]

\* The radio completes a reception: DIO1 fires, and _handleLoRaRx sets the
\* flag if it is attached.
RadioRx(packet, intact) ==
    /\ radioMode = "rx"
    /\ radioPacket' = packet
    /\ radioCrcOk' = intact
    /\ packetReceived' = (packetReceived \/ dio1Action)
    /\ UNCHANGED <<dio1Action, radioMode, binaryPacketBuffer>>

\* A fresh packet has arrived and has not been read out yet.
FreshPending ==
    /\ packetReceived \/ pc \in {"detach", "read"}
    /\ Len(radioPacket) > 0
    /\ PairOf(radioPacket).nodeId = 9

\* A packet never sent before arrives; fresh traffic is spaced: it arrives
\* while the loop is idle and is read before anything else arrives.
RadioRxFresh ==
    /\ pc = "loop" /\ ~packetReceived /\ dio1Action
    /\ fresh < capacity + MaxBeyond
    /\ RadioRx(PacketOf(FreshPair), TRUE)
    /\ fresh' = fresh + 1
    /\ UNCHANGED <<pc, sketchVars, out, sightings, role, cacheVars,
                   calls, last, since, arbitrary, failed, codecVars,
                   sendVars>>

\* A copy of ReplayPair's packet arrives, at any moment.
RadioRxReplay ==
    /\ ~FreshPending
    /\ RadioRx(PacketOf(ReplayPair), TRUE)
    /\ UNCHANGED <<pc, sketchVars, out, sightings, role, cacheVars,
                   histVars, codecVars, sendVars>>

\* An invalid packet, or (repeater) the echo of an own packet, arrives.
RadioRxNoise ==
    \E packet \in {InvalidPacket} \cup
                  (IF role = "repeater" THEN {PacketOf(OwnPair)} ELSE {}) :
        /\ ~FreshPending
        /\ RadioRx(packet, TRUE)
        /\ UNCHANGED <<pc, sketchVars, out, sightings, role, cacheVars,
                       histVars, codecVars, sendVars>>

\* A packet arrives damaged (CRC mismatch).
RadioRxDamaged ==
    /\ ~FreshPending
    /\ RadioRx(PacketOf(ReplayPair), FALSE)
    /\ UNCHANGED <<pc, sketchVars, out, sightings, role, cacheVars,
                   histVars, codecVars, sendVars>>

\* SensorSentinel_process_packets, first statement: the flag is seen set
\* and cleared.
PP_Begin ==
    /\ pc = "loop" /\ packetReceived
    /\ packetReceived' = FALSE
    /\ out' = <<>>
    /\ pc' = "detach"
    /\ UNCHANGED <<dio1Action, radioMode, radioPacket, radioCrcOk,
                   binaryPacketBuffer, sketchVars, sightings, role,
                   cacheVars, histVars, codecVars, sendVars>>

\* Mutant: the handler stays attached.
PP_Detach_Skipped ==
    /\ pc = "detach"
    /\ dio1Action' = dio1Action
    /\ pc' = "read"
    /\ UNCHANGED <<packetReceived, radioMode, radioPacket, radioCrcOk,
                   binaryPacketBuffer, sketchVars, out, sightings, role,
                   cacheVars, histVars, codecVars, sendVars>>

\* process_packets: radio.clearDio1Action().
PP_Detach ==
    /\ pc = "detach"
    /\ dio1Action' = FALSE
    /\ pc' = "read"
    /\ UNCHANGED <<packetReceived, radioMode, radioPacket, radioCrcOk,
                   binaryPacketBuffer, sketchVars, out, sightings, role,
                   cacheVars, histVars, codecVars, sendVars>>

\* process_packets: read the packet out of the radio into the shared
\* buffer; readData reports an error for a packet that did not arrive
\* intact, and an empty packet is not handed to the callback.
PP_Read ==
    /\ pc = "read"
    /\ binaryPacketBuffer' = radioPacket
    /\ pc' = IF radioCrcOk /\ Len(radioPacket) > 0 THEN "callback"
             ELSE "restart"
    /\ UNCHANGED <<packetReceived, dio1Action, radioMode, radioPacket,
                   radioCrcOk, sketchVars, out, sightings, role, cacheVars,
                   histVars, codecVars, sendVars>>

\* Gateway, onBinaryPacketReceived up to the forward: copy, validate, look
\* the pair up, remember it if new.
GW_Check ==
    /\ role = "gateway" /\ pc = "callback"
    /\ packetBuffer' = binaryPacketBuffer
    /\ LET length == Len(binaryPacketBuffer)
           p == PairOf(binaryPacketBuffer)
       IN  IF ~SensorSentinel_validate_packet(binaryPacketBuffer, length)
           THEN /\ pc' = "restart"
                /\ UNCHANGED <<out, sightings, cacheVars, histVars>>
           ELSE /\ Saw(p)
                /\ IF ~isPacketAlreadyProcessed(p.nodeId, p.messageCounter)
                   THEN /\ addToReceivedCache(p.nodeId, p.messageCounter)
                        /\ Remembered(p)
                        /\ out' = out \o <<Event("lookup", p),
                                           Event("remember", p)>>
                        /\ pc' = "gw_forward"
                        /\ UNCHANGED <<packetCache, cacheIndex, arbitrary,
                                       fresh, failed>>
                   ELSE /\ out' = out \o <<Event("lookup", p),
                                           Event("skip", p)>>
                        /\ pc' = "restart"
                        /\ UNCHANGED <<cacheVars, histVars>>
    /\ UNCHANGED <<radioVars, packetsRepeated, role, codecVars, sendVars>>

\* Gateway, rest of onBinaryPacketReceived: forward to MQTT.
GW_Forward ==
    /\ role = "gateway" /\ pc = "gw_forward"
    /\ \E connected \in BOOLEAN, published \in BOOLEAN :
          LET forwarded ==
                  SensorSentinel_mqtt_forward_packet(
                      packetBuffer, Len(packetBuffer), connected, published)
          IN  /\ out' = out \o <<[op |-> "forward",
                                   nodeId |-> PairOf(packetBuffer).nodeId,
                                   messageCounter |->
                                       PairOf(packetBuffer).messageCounter,
                                   status |-> forwarded.status]>>
              /\ Ended(PairOf(packetBuffer),
                       forwarded.status = "MQTT_SUCCESS")
    /\ pc' = "restart"
    /\ UNCHANGED <<radioVars, packetBuffer, packetsRepeated, sightings, role,
                   cacheVars, calls, last, since, arbitrary, fresh,
                   codecVars, sendVars>>

\* Mutant: no packet is recognised as the device's own.
IsOwnPacket_Never(buf) == FALSE

\* Repeater: the received packet carries this device's own id.
IsOwnPacket(buf) ==
    SensorSentinel_extract_node_id_from_packet(buf)
        = SensorSentinel_generate_node_id

\* Mutant: the packet is not validated.
RP_Check_NoValidation ==
    /\ role = "repeater" /\ pc = "callback"
    /\ LET p == PairOf(binaryPacketBuffer)
       IN  /\ Saw(p)
           /\ IF IsOwnPacket(binaryPacketBuffer)
              THEN pc' = "restart" /\ UNCHANGED out
              ELSE IF shouldRepeatPacket(p.nodeId, p.messageCounter)
              THEN /\ out' = out \o <<Event("lookup", p),
                                      Handed(Event("delay", p),
                                             binaryPacketBuffer,
                                             Len(binaryPacketBuffer))>>
                   /\ pc' = "rp_delay"
              ELSE /\ out' = out \o <<Event("lookup", p),
                                      Event("skip", p)>>
                   /\ pc' = "restart"
    /\ UNCHANGED <<radioVars, sketchVars, role, cacheVars, histVars,
                   codecVars, sendVars>>

\* Repeater, onPacketReceived up to the delay: validate, drop own packets,
\* look the pair up, start the collision-avoidance delay if it is new.
RP_Check ==
    /\ role = "repeater" /\ pc = "callback"
    /\ LET length == Len(binaryPacketBuffer)
           p == PairOf(binaryPacketBuffer)
       IN  IF ~SensorSentinel_validate_packet(binaryPacketBuffer, length)
           THEN pc' = "restart" /\ UNCHANGED <<out, sightings>>
           ELSE /\ Saw(p)
                /\ IF IsOwnPacket(binaryPacketBuffer)
                   THEN pc' = "restart" /\ UNCHANGED out
                   ELSE IF shouldRepeatPacket(p.nodeId, p.messageCounter)
                   THEN /\ out' = out \o <<Event("lookup", p),
                                           Handed(Event("delay", p),
                                                  binaryPacketBuffer,
                                                  length)>>
                        /\ pc' = "rp_delay"
                   ELSE /\ out' = out \o <<Event("lookup", p),
                                           Event("skip", p)>>
                        /\ pc' = "restart"
    /\ UNCHANGED <<radioVars, sketchVars, role, cacheVars, histVars,
                   codecVars, sendVars>>

\* Mutant: the payload is fetched from the radio again after the delay.
RP_Transmit_Reread ==
    /\ role = "repeater" /\ pc = "rp_delay"
    /\ \E state \in TransmitStates :
          /\ out' = out \o
                <<Handed(Event("transmit", PairOf(binaryPacketBuffer)),
                         radioPacket, Len(radioPacket))
                    @@ [state |-> state]>>
          /\ Ended(PairOf(binaryPacketBuffer), state = "ERR_NONE")
    /\ radioMode' = "standby"
    /\ pc' = "rp_remember"
    /\ UNCHANGED <<packetReceived, dio1Action, radioPacket, radioCrcOk,
                   binaryPacketBuffer, sketchVars, sightings, role,
                   cacheVars, calls, last, since, arbitrary, fresh,
                   codecVars, sendVars>>

\* Repeater: the delay is over, repeatPacket hands the callback's data and
\* length to radio.transmit; the radio is in standby after the
\* transmission, whether it succeeded or not.
RP_Transmit ==
    /\ role = "repeater" /\ pc = "rp_delay"
    /\ \E state \in TransmitStates :
          /\ out' = out \o
                <<Handed(Event("transmit", PairOf(binaryPacketBuffer)),
                         binaryPacketBuffer, Len(binaryPacketBuffer))
                    @@ [state |-> state]>>
          /\ Ended(PairOf(binaryPacketBuffer), state = "ERR_NONE")
    /\ radioMode' = "standby"
    /\ pc' = "rp_remember"
    /\ UNCHANGED <<packetReceived, dio1Action, radioPacket, radioCrcOk,
                   binaryPacketBuffer, sketchVars, sightings, role,
                   cacheVars, calls, last, since, arbitrary, fresh,
                   codecVars, sendVars>>

\* Mutant: the pair is remembered and counted only when the transmission
\* succeeded.
RP_Remember_OnSuccess ==
    /\ role = "repeater" /\ pc = "rp_remember"
    /\ LET p == PairOf(binaryPacketBuffer)
       IN  IF out[Len(out)].state = "ERR_NONE"
           THEN /\ addToCache(p.nodeId, p.messageCounter)
                /\ Remembered(p)
                /\ out' = out \o <<Event("remember", p)>>
                /\ packetsRepeated' = packetsRepeated + 1
           ELSE UNCHANGED <<packetCache, cacheIndex, calls, last, since,
                            out, packetsRepeated>>
    /\ pc' = "restart"
    /\ UNCHANGED <<radioVars, packetBuffer, sightings, role, receivedCache,
                   receivedCacheIndex, arbitrary, fresh, failed, codecVars,
                   sendVars>>

\* Repeater, rest of onPacketReceived: remember the pair, count.
RP_Remember ==
    /\ role = "repeater" /\ pc = "rp_remember"
    /\ LET p == PairOf(binaryPacketBuffer)
       IN  /\ addToCache(p.nodeId, p.messageCounter)
           /\ Remembered(p)
           /\ out' = out \o <<Event("remember", p)>>
    /\ packetsRepeated' = packetsRepeated + 1
    /\ pc' = "restart"
    /\ UNCHANGED <<radioVars, packetBuffer, sightings, role, receivedCache,
                   receivedCacheIndex, arbitrary, fresh, failed, codecVars,
                   sendVars>>

\* process_packets after the callback: standby, restart reception.
PP_Restart ==
    /\ pc = "restart"
    /\ radioMode' = "rx"
    /\ pc' = "attach"
    /\ UNCHANGED <<packetReceived, dio1Action, radioPacket, radioCrcOk,
                   binaryPacketBuffer, sketchVars, out, sightings, role,
                   cacheVars, histVars, codecVars, sendVars>>

\* process_packets, last statement: re-attach the interrupt handler.
PP_Attach ==
    /\ pc = "attach"
    /\ dio1Action' = TRUE
    /\ pc' = "loop"
    /\ UNCHANGED <<packetReceived, radioMode, radioPacket, radioCrcOk,
                   binaryPacketBuffer, sketchVars, out, sightings, role,
                   cacheVars, histVars, codecVars, sendVars>>

Init == CacheSetup /\ HistInit /\ CodecIdle /\ PipeSetup /\ SendIdle

Next ==
    \/ RadioRxFresh
    \/ RadioRxReplay
    \/ RadioRxNoise
    \/ RadioRxDamaged
    \/ PP_Begin
    \/ PP_Detach
    \/ PP_Read
    \/ GW_Check
    \/ GW_Forward
    \/ RP_Check
    \/ RP_Transmit
    \/ RP_Remember
    \/ PP_Restart
    \/ PP_Attach

Spec == Init /\ [][Next]_vars

\* ------------------------------------------------------------------------
\* Subscription specification: subscribe, unsubscribe and process_packets
\* called in any order, the callbacks calling subscribe and unsubscribe too
\* ------------------------------------------------------------------------
\* Subscribe / unsubscribe calls one process_packets invocation's callbacks
\* make.
MaxInCallback == 2

\* The radio helper's module state.
SubState ==
    [packetCallback |-> packetCallback,
     binaryPacketCallback |-> binaryPacketCallback,
     packetReceived |-> packetReceived,
     dio1Action |-> dio1Action,
     radioMode |-> radioMode]

\* A reception can complete (and the handler run) in the middle of a
\* function that is about to detach the handler.
CanRace(s) == s.radioMode = "rx" /\ s.dio1Action

\* SensorSentinel_subscribe_packets; started: startReceive returned
\* RADIOLIB_ERR_NONE.
SensorSentinel_subscribe_packets(s, callback, started) ==
    IF callback = NULL THEN [ret |-> FALSE, s |-> s]
    ELSE [ret |-> started,
          s |-> [s EXCEPT !.packetCallback = callback,
                          !.packetReceived = FALSE,
                          !.dio1Action = TRUE,
                          !.radioMode = IF started THEN "rx" ELSE @]]

\* SensorSentinel_subscribe_binary_packets.
SensorSentinel_subscribe_binary_packets(s, callback, started) ==
    IF callback = NULL THEN [ret |-> FALSE, s |-> s]
    ELSE [ret |-> started,
          s |-> [s EXCEPT !.binaryPacketCallback = callback,
                          !.packetReceived = FALSE,
                          !.dio1Action = TRUE,
                          !.radioMode = IF started THEN "rx" ELSE @]]

\* SensorSentinel_unsubscribe_packets; halted: standby returned
\* RADIOLIB_ERR_NONE; raced: a reception completed between the reset of the
\* flag and clearDio1Action.
SensorSentinel_unsubscribe_packets(s, halted, raced) ==
    IF s.binaryPacketCallback = NULL
    THEN [ret |-> halted,
          s |-> [s EXCEPT !.packetCallback = NULL,
                          !.packetReceived = raced /\ CanRace(s),
                          !.dio1Action = FALSE,
                          !.radioMode = IF halted THEN "standby" ELSE @]]
    ELSE [ret |-> TRUE, s |-> [s EXCEPT !.packetCallback = NULL]]

\* SensorSentinel_unsubscribe_binary_packets.
SensorSentinel_unsubscribe_binary_packets(s, halted, raced) ==
    IF s.packetCallback = NULL
    THEN [ret |-> halted,
          s |-> [s EXCEPT !.binaryPacketCallback = NULL,
                          !.packetReceived = raced /\ CanRace(s),
                          !.dio1Action = FALSE,
                          !.radioMode = IF halted THEN "standby" ELSE @]]
    ELSE [ret |-> TRUE, s |-> [s EXCEPT !.binaryPacketCallback = NULL]]

\* The variables the subscription functions leave alone.
subRest ==
    <<radioPacket, radioCrcOk, binaryPacketBuffer, sketchVars, sightings,
      codecVars, role, cacheVars, histVars, trackerVars, senderVars,
      mqttVars>>

\* Where the sketch can call a subscription function: from the main loop
\* or from inside one of its callbacks.
InCallback == pc \in {"string_cb", "binary_cb"}
ApiCalls == {i \in DOMAIN out : out[i].op \notin {"callback", "startReceive"}}
MayCall ==
    \/ pc = "loop"
    \/ InCallback /\ Cardinality(ApiCalls) < MaxInCallback

\* The module state after a function returned; a call made from inside a
\* callback is noted in out.
SubReturned(s, fn) ==
    /\ packetCallback' = s.packetCallback
    /\ binaryPacketCallback' = s.binaryPacketCallback
    /\ packetReceived' = s.packetReceived
    /\ dio1Action' = s.dio1Action
    /\ radioMode' = s.radioMode
    /\ out' = IF InCallback THEN out \o <<[op |-> fn]>> ELSE out
    /\ UNCHANGED <<pc, subRest>>

SubscribePackets ==
    /\ MayCall
    /\ \E callback \in {NULL, StringCallback}, started \in BOOLEAN :
          SubReturned(
              SensorSentinel_subscribe_packets(SubState, callback,
                                               started).s,
              "subscribe_packets")

SubscribeBinaryPackets ==
    /\ MayCall
    /\ \E callback \in {NULL, BinaryCallback}, started \in BOOLEAN :
          SubReturned(
              SensorSentinel_subscribe_binary_packets(SubState, callback,
                                                      started).s,
              "subscribe_binary_packets")

UnsubscribePackets ==
    /\ MayCall
    /\ \E halted \in BOOLEAN, raced \in BOOLEAN :
          SubReturned(
              SensorSentinel_unsubscribe_packets(SubState, halted, raced).s,
              "unsubscribe_packets")

UnsubscribeBinaryPackets ==
    /\ MayCall
    /\ \E halted \in BOOLEAN, raced \in BOOLEAN :
          SubReturned(
              SensorSentinel_unsubscribe_binary_packets(SubState, halted,
                                                        raced).s,
              "unsubscribe_binary_packets")

\* The radio completes a reception; _handleLoRaRx runs if it is attached.
SubRadioRx ==
    /\ radioMode = "rx"
    /\ packetReceived' = (packetReceived \/ dio1Action)
    /\ UNCHANGED <<pc, out, dio1Action, radioMode, subVars, subRest>>

\* process_packets with the flag set: clear the flag, detach the handler
\* (a reception in between sets the flag again), look for callbacks.
PS_Begin ==
    /\ pc = "loop" /\ packetReceived
    /\ \E raced \in BOOLEAN :
          packetReceived' = (raced /\ CanRace(SubState))
    /\ dio1Action' = FALSE
    /\ out' = <<>>
    /\ pc' = IF packetCallback # NULL \/ binaryPacketCallback # NULL
             THEN "pp_string" ELSE "pp_end"
    /\ UNCHANGED <<radioMode, subVars, subRest>>

\* process_packets: the string callback, if registered and readData
\* succeeded.
PS_String ==
    /\ pc = "pp_string"
    /\ \E state \in {"ERR_NONE", "ERR_CRC_MISMATCH"} :
          IF packetCallback # NULL /\ state = "ERR_NONE"
          THEN /\ pc' = "string_cb"
               /\ out' = out \o <<[op |-> "callback"]>>
          ELSE pc' = "pp_binary" /\ UNCHANGED out
    /\ UNCHANGED <<packetReceived, dio1Action, radioMode, subVars, subRest>>

\* process_packets: the binary callback, if registered (still, after the
\* string callback), readData succeeded and the packet is not empty.
PS_Binary ==
    /\ pc = "pp_binary"
    /\ \E state \in {"ERR_NONE", "ERR_CRC_MISMATCH"}, length \in {0, 27} :
          IF binaryPacketCallback # NULL /\ state = "ERR_NONE" /\ length > 0
          THEN /\ pc' = "binary_cb"
               /\ out' = out \o <<[op |-> "callback"]>>
          ELSE pc' = "pp_end" /\ UNCHANGED out
    /\ UNCHANGED <<packetReceived, dio1Action, radioMode, subVars, subRest>>

\* A callback returns to process_packets.
PS_CallbackReturns ==
    /\ InCallback
    /\ pc' = IF pc = "string_cb" THEN "pp_binary" ELSE "pp_end"
    /\ UNCHANGED <<out, packetReceived, dio1Action, radioMode, subVars,
                   subRest>>

\* Mutant: reception is restarted and the handler attached whether or not
\* a callback is left.
PS_End_AlwaysRestart ==
    /\ pc = "pp_end"
    /\ \E started \in BOOLEAN :
          radioMode' = IF started THEN "rx" ELSE "standby"
    /\ dio1Action' = TRUE
    /\ out' = out \o <<[op |-> "startReceive"]>>
    /\ pc' = "loop"
    /\ UNCHANGED <<packetReceived, subVars, subRest>>

\* process_packets, end: standby, and only if a callback is still
\* registered startReceive and setDio1Action.
PS_End ==
    /\ pc = "pp_end"
    /\ IF packetCallback # NULL \/ binaryPacketCallback # NULL
       THEN /\ \E started \in BOOLEAN :
                  radioMode' = IF started THEN "rx" ELSE "standby"
            /\ dio1Action' = TRUE
            /\ out' = out \o <<[op |-> "startReceive"]>>
       ELSE /\ radioMode' = "standby"
            /\ UNCHANGED <<dio1Action, out>>
    /\ pc' = "loop"
    /\ UNCHANGED <<packetReceived, subVars, subRest>>

\* Before setup() subscribes: no callback, no handler, radio in standby.
PipeBoot ==
    /\ pc = "loop"
    /\ packetCallback = NULL
    /\ binaryPacketCallback = NULL
    /\ packetReceived = FALSE
    /\ dio1Action = FALSE
    /\ radioMode = "standby"
    /\ radioPacket = <<>>
    /\ radioCrcOk = TRUE
    /\ binaryPacketBuffer = <<>>
    /\ packetBuffer = <<>>
    /\ packetsRepeated = 0
    /\ out = <<>>
    /\ sightings = [p \in ChosenPairs |-> 0]

SubInit ==
    /\ CacheSetup /\ HistInit /\ CodecIdle /\ SendIdle
    /\ PipeBoot \/ PipeSetup

SubNext ==
    \/ SubscribePackets
    \/ SubscribeBinaryPackets
    \/ UnsubscribePackets
    \/ UnsubscribeBinaryPackets
    \/ SubRadioRx
    \/ PS_Begin
    \/ PS_String
    \/ PS_Binary
    \/ PS_CallbackReturns
    \/ PS_End

SpecSub == SubInit /\ [][SubNext]_vars

\* ------------------------------------------------------------------------
\* Cache properties
\* ------------------------------------------------------------------------
\* Pairs with a non-zero node that no remember call has been given.
NeverRemembered ==
    {p \in ChosenPairs : since[p] < 0}
        \cup {[nodeId |-> 5, messageCounter |-> 0],
              [nodeId |-> 7, messageCounter |-> 1],
              FreshPair}

\* C1: on a zero-initialised cache, after any sequence of remember calls,
\* seen is true of the pair just remembered, and seen is false of every pair
\* with a non-zero node that was never remembered.
C1_Membership ==
    /\ calls > 0 => seen(last.nodeId, last.messageCounter)
    /\ \A p \in NeverRemembered : ~seen(p.nodeId, p.messageCounter)

\* The repeater has just remembered (5, 1) in the last slot of its cache
\* while (5, 2) was never remembered.
C1_Witness ==
    /\ role = "repeater" /\ calls = REPEATER_PACKET_CACHE_SIZE
    /\ last = [nodeId |-> 5, messageCounter |-> 1]
    /\ ~shouldRepeatPacket(5, 1)
    /\ shouldRepeatPacket(5, 2)

\* C2: a remembered pair stays seen while fewer than capacity further
\* remember calls have been made, and is not seen once exactly capacity
\* further calls, all with other pairs, have been made.
C2_Eviction ==
    \A p \in ChosenPairs :
        /\ (since[p] >= 0 /\ since[p] < capacity)
              => seen(p.nodeId, p.messageCounter)
        /\ since[p] = capacity => ~seen(p.nodeId, p.messageCounter)

\* The gateway has remembered 50 other pairs since (5, 1), which is evicted.
C2_Witness ==
    /\ role = "gateway"
    /\ since[[nodeId |-> 5, messageCounter |-> 1]]
         = GATEWAY_PACKET_CACHE_SIZE
    /\ ~isPacketAlreadyProcessed(5, 1)

\* ------------------------------------------------------------------------
\* Codec properties
\* ------------------------------------------------------------------------
Validated == codecPc = "returned"
KnownType(buf) ==
    U8(buf, OffMessageType) \in
        {SensorSentinel_MSG_SENSOR, SensorSentinel_MSG_GNSS}

\* C6: validate returns true only if the buffer is not null, length >= 1,
\* the first byte is 0x01 or 0x02 and length is exactly the fixed size of
\* that type, whatever the other fields hold.
C6_Framing ==
    (Validated /\ isValid) =>
        /\ data # NULL
        /\ dataSize >= 1
        /\ U8(data, OffMessageType) \in {1, 2}
        /\ dataSize = SensorSentinel_get_packet_size(U8(data, OffMessageType))

\* A Sensor packet whose fields are all valid, one byte too long, rejected.
C6_Witness ==
    /\ Validated /\ ~isValid /\ data # NULL
    /\ U8(data, OffMessageType) = SensorSentinel_MSG_SENSOR
    /\ dataSize = SensorPacketSize + 1
    /\ ValidateSensorFields(data)

\* C7: a Sensor or GNSS packet whose nodeId field is 0 is rejected, even
\* when type, length and all other fields are valid.
C7_ZeroNodeIdRejected ==
    (/\ Validated /\ data # NULL /\ dataSize >= OffNodeId + 4
     /\ KnownType(data)
     /\ U32(data, OffNodeId) = 0) => ~isValid

\* A GNSS packet rejected for its nodeId alone: with nodeId 5 it is valid.
C7_Witness ==
    /\ Validated /\ ~isValid /\ data # NULL
    /\ U8(data, OffMessageType) = SensorSentinel_MSG_GNSS
    /\ U32(data, OffNodeId) = 0
    /\ SensorSentinel_validate_packet(Poke(data, OffNodeId, Bytes32(5)),
                                      dataSize)

\* C8: a packet of either type with batteryLevel > 100 is rejected, and with
\* batteryLevel in 0..100 it is accepted when the other fields are valid
\* (that is, when the same buffer with batteryLevel 50 is accepted).
C8_BatteryLevel ==
    (/\ Validated /\ data # NULL /\ dataSize > OffBatteryLevel
     /\ KnownType(data)) =>
        /\ U8(data, OffBatteryLevel) > 100 => ~isValid
        /\ (/\ U8(data, OffBatteryLevel) <= 100
            /\ SensorSentinel_validate_packet(
                   Poke(data, OffBatteryLevel, <<50>>), dataSize))
              => isValid

\* A Sensor packet with batteryLevel exactly 100, accepted.
C8_Witness ==
    /\ Validated /\ isValid
    /\ U8(data, OffMessageType) = SensorSentinel_MSG_SENSOR
    /\ U8(data, OffBatteryLevel) = 100

VoltageSamples == {0, 1999, 2000, 3700, 4500, 4501, 65535}

\* C9: the result of validate does not depend on batteryVoltage: the same
\* buffer with any other value in the batteryVoltage field gets the same
\* result.
C9_VoltageIndependent ==
    (Validated /\ data # NULL /\ dataSize >= OffBatteryVoltage + 2) =>
        \A v \in VoltageSamples :
            SensorSentinel_validate_packet(
                Poke(data, OffBatteryVoltage, Bytes16(v)), dataSize)
              = isValid

\* A GNSS packet with 1999 mV, accepted.
C9_Witness ==
    /\ Validated /\ isValid
    /\ U8(data, OffMessageType) = SensorSentinel_MSG_GNSS
    /\ U16(data, OffBatteryVoltage) = 1999

\* The number a binary32 denotes lies in [lo, hi] (a NaN denotes none).
FloatWithin(f, lo, hi) ==
    /\ ~FloatIsNaN(f)
    /\ FloatKey(lo) <= FloatKey(f)
    /\ FloatKey(f) <= FloatKey(hi)

GnssFramingOk ==
    /\ Validated /\ data # NULL
    /\ U8(data, OffMessageType) = SensorSentinel_MSG_GNSS
    /\ dataSize = GnssPacketSize
    /\ U32(data, OffNodeId) # 0
    /\ U8(data, OffBatteryLevel) <= 100

\* C10: for a GNSS packet with valid framing, nodeId and batteryLevel,
\* validate returns true exactly when latitude is in [-90, 90], longitude in
\* [-180, 180], speed >= 0, course in [0, 360) and hdop <= 200.
C10_GnssRanges ==
    GnssFramingOk =>
        (isValid <=>
            /\ FloatWithin(F32(data, OffLatitude), LitNeg90, Lit90)
            /\ FloatWithin(F32(data, OffLongitude), LitNeg180, Lit180)
            /\ ~FloatIsNaN(F32(data, OffSpeed))
            /\ FloatKey(F32(data, OffSpeed)) >= 0
            /\ ~FloatIsNaN(F32(data, OffCourse))
            /\ FloatKey(F32(data, OffCourse)) >= 0
            /\ FloatKey(F32(data, OffCourse)) < FloatKey(Lit360)
            /\ U8(data, OffHdop) <= 200)

\* ------------------------------------------------------------------------
\* Receive path properties
\* ------------------------------------------------------------------------
\* The forward / repeat action of a callback: handing the packet to MQTT,
\* the collision-avoidance delay, the radio transmission.
ForwardOps == {"forward", "delay", "transmit"}

\* C3: in the gateway's and in the repeater's callback the pair of the
\* packet is written to the cache before the forward / repeat action.
C3_RememberBeforeForward ==
    \A i \in DOMAIN out :
        out[i].op \in ForwardOps =>
            \E j \in 1..(i - 1) :
                /\ out[j].op = "remember"
                /\ out[j].nodeId = out[i].nodeId
                /\ out[j].messageCounter = out[i].messageCounter

\* C4: the repeater never looks up, delays for, transmits or remembers a
\* packet that carries its own node id, whatever the cache holds.
C4_SelfEchoRejected ==
    role = "repeater" =>
        /\ \A i \in DOMAIN out :
              out[i].nodeId # SensorSentinel_generate_node_id
        /\ \A i \in 1..REPEATER_PACKET_CACHE_SIZE :
              packetCache[i].nodeId # SensorSentinel_generate_node_id
        /\ pc \in {"rp_delay", "rp_remember"}
              => ~IsOwnPacket(binaryPacketBuffer)

\* The repeater's callback has returned from a valid packet of its own id
\* without having done anything.
C4_Witness ==
    /\ role = "repeater" /\ pc = "restart"
    /\ binaryPacketBuffer = PacketOf(OwnPair)
    /\ SensorSentinel_validate_packet(binaryPacketBuffer,
                                      Len(binaryPacketBuffer))
    /\ out = <<>>

\* No valid packet with this pair has been handed to the callback before
\* (fresh packets arrive once).
FirstSighting(p) == IF p \in ChosenPairs THEN sightings[p] = 0 ELSE TRUE
\* The pair has been sighted before and fewer than capacity pairs have been
\* remembered since it was.
SightedWithinWindow(p) ==
    p \in ChosenPairs /\ sightings[p] > 0 /\ since[p] < capacity

\* C5: when the gateway's callback handles a valid packet, a first sighting
\* of its pair is handed to MQTT forwarding (not flagged as a duplicate),
\* and a later sighting with fewer than capacity pairs remembered in between
\* is skipped: nothing is forwarded and the cache is left alone.
C5_GatewayAtMostOnce ==
    [][(/\ role = "gateway" /\ pc = "callback" /\ pc' # "callback"
        /\ SensorSentinel_validate_packet(binaryPacketBuffer,
                                          Len(binaryPacketBuffer)))
       => LET p == PairOf(binaryPacketBuffer)
          IN  /\ FirstSighting(p) => pc' = "gw_forward"
              /\ SightedWithinWindow(p) =>
                    /\ pc' = "restart"
                    /\ out' = <<Event("lookup", p), Event("skip", p)>>
                    /\ UNCHANGED cacheVars]_vars

\* The gateway has skipped a second sighting of (5, 1) that came after 49
\* other pairs had been remembered.
C5_Witness ==
    /\ role = "gateway" /\ pc = "restart"
    /\ binaryPacketBuffer = PacketOf(ReplayPair)
    /\ sightings[ReplayPair] = 2
    /\ since[ReplayPair] = GATEWAY_PACKET_CACHE_SIZE - 1
    /\ out = <<Event("lookup", ReplayPair), Event("skip", ReplayPair)>>

\* ------------------------------------------------------------------------
\* Codec properties, continued
\* ------------------------------------------------------------------------
\* C11: validate accepts a Sensor packet only if each of its four analog
\* readings is in [0, 4095].
C11_AnalogRange ==
    (Validated /\ isValid /\ data # NULL
        /\ U8(data, OffMessageType) = SensorSentinel_MSG_SENSOR)
      => \A i \in 0..3 : U16(data, OffAnalog + 2 * i) \in 0..4095

\* A Sensor packet, well-formed except that its last analog reading is
\* 4096, has been rejected.
C11_Witness ==
    /\ Validated /\ ~isValid /\ data # NULL
    /\ dataSize = SensorPacketSize
    /\ data = Poke(BaseSensor, OffAnalog + 6, Bytes16(4096))

Parsed == codecPc = "parsed"

\* C12: whenever parse returns 0, no byte of the caller's output buffer has
\* been written.
C12_ParseFailureLeavesOutput ==
    [][(codecPc = "call" /\ codecPc' = "parsed" /\ parseResult' = 0)
          => outputPacket' = outputPacket]_vars

\* parse has returned 0 for a Sensor packet of the right length whose
\* nodeId is zero, with an output buffer large enough for it, and the
\* output buffer still holds the fill byte everywhere.
C12_Witness ==
    /\ Parsed /\ parseResult = 0
    /\ data = Poke(BaseSensor, OffNodeId, Bytes32(0))
    /\ dataSize = SensorPacketSize
    /\ outputSize = SensorPacketSize
    /\ outputPacket = OutputStorage

\* The fields of a packet, read through the struct of its type.
FieldsOf(buf) ==
    [messageType |-> U8(buf, OffMessageType),
     nodeId |-> U32(buf, OffNodeId),
     messageCounter |-> U32(buf, OffMessageCounter),
     uptime |-> U32(buf, OffUptime),
     batteryLevel |-> U8(buf, OffBatteryLevel),
     batteryVoltage |-> U16(buf, OffBatteryVoltage),
     body |-> IF U8(buf, OffMessageType) = SensorSentinel_MSG_SENSOR
              THEN [analog |-> [i \in 0..3 |-> U16(buf, OffAnalog + 2 * i)],
                    boolean |-> U8(buf, OffBoolean),
                    reserved |-> <<U8(buf, SensorPacketSize - 2),
                                   U8(buf, SensorPacketSize - 1)>>]
              ELSE [latitude |-> F32(buf, OffLatitude),
                    longitude |-> F32(buf, OffLongitude),
                    speed |-> F32(buf, OffSpeed),
                    hdop |-> U8(buf, OffHdop),
                    course |-> F32(buf, OffCourse),
                    reserved |-> <<U8(buf, GnssPacketSize - 2),
                                   U8(buf, GnssPacketSize - 1)>>]]

\* C13: for a packet that passes validate, parse into an output of at least
\* the size of its type returns its messageType, and the first
\* sizeForType(type) bytes of the output, hence all fields, equal the
\* packet's.
C13_RoundTrip ==
    (Parsed /\ data # NULL /\ outputPacket # NULL
        /\ SensorSentinel_validate_packet(data, dataSize)
        /\ outputSize >= dataSize)
      => /\ parseResult = U8(data, OffMessageType)
         /\ \A i \in 1..dataSize : outputPacket[i] = data[i]
         /\ FieldsOf(outputPacket) = FieldsOf(data)

\* A valid GNSS packet has been parsed into a 36-byte output: type 2 is
\* returned, and the byte after the packet is untouched.
C13_Witness ==
    /\ Parsed /\ parseResult = SensorSentinel_MSG_GNSS
    /\ data = BaseGnss /\ dataSize = GnssPacketSize
    /\ outputSize = GnssPacketSize + 1
    /\ FieldsOf(outputPacket).body.course = F32(F_270, 0)
    /\ outputPacket[GnssPacketSize + 1] = OutputStorage[GnssPacketSize + 1]

Sized == codecPc = "sized"

\* C14: get_packet_size returns the size of the Sensor struct for 0x01, the
\* size of the GNSS struct for 0x02 and 0 for every other byte value.
C14_SizeDispatch ==
    Sized =>
        /\ messageType = 1 => packetSize = SensorPacketSize
        /\ messageType = 2 => packetSize = GnssPacketSize
        /\ messageType \in ({0} \cup 3..255) => packetSize = 0

\* get_packet_size has returned 0 for type byte 0x03.
C14_Witness == Sized /\ messageType = 3 /\ packetSize = 0

\* Sum of the sizes of the declared fields of the Sensor packet:
\* messageType, nodeId, messageCounter, uptime, batteryLevel,
\* batteryVoltage, four analog values, the boolean byte, two reserved bytes.
SensorDeclaredFieldBytes == 1 + 4 + 4 + 4 + 1 + 2 + 4 * 2 + 1 + 2

\* C15: the byte size of the Sensor packet is the sum of the sizes of its
\* declared fields: no padding byte inside or after the pin readings.
C15_NoPadding ==
    (Sized /\ messageType = SensorSentinel_MSG_SENSOR)
        => packetSize = SensorDeclaredFieldBytes

Built == codecPc = "built"
NoFixAvailable == ~(device.gnssCompiled /\ device.gps.valid)

ReadOut ==
    {"read", "callback", "gw_forward", "rp_delay", "rp_remember", "restart",
     "attach"}

\* C17: in process_packets the flag is cleared when it is observed; the
\* handler is detached before the payload is read and stays detached during
\* the read and the callback; it is re-attached only after startReceive;
\* meanwhile the flag is never set, and the shared buffer is written by the
\* read only.
C17_InterruptMasked ==
    [][/\ pc' \in ReadOut => ~dio1Action'
       /\ (pc = "loop" /\ pc' # "loop") => ~packetReceived'
       /\ pc \in ReadOut => ~(~packetReceived /\ packetReceived')
       /\ binaryPacketBuffer' # binaryPacketBuffer => pc = "read"
       /\ (~dio1Action /\ dio1Action')
             => (pc = "attach" /\ radioMode = "rx")]_vars

\* While the callback runs on (5, 1), the radio has completed the reception
\* of another packet: the flag is not set and the buffer still holds (5, 1).
C17_Witness ==
    /\ pc = "callback" /\ ~dio1Action /\ ~packetReceived
    /\ binaryPacketBuffer = PacketOf(ReplayPair)
    /\ radioPacket = InvalidPacket

\* C18: when the buffer handed to the callback fails validate, the callback
\* returns without a lookup, delay, radio transmit or MQTT forward, and the
\* cache and its write cursor are unchanged, in both roles.
C18_InvalidDiscarded ==
    [][(/\ pc = "callback" /\ pc' # "callback"
        /\ ~SensorSentinel_validate_packet(binaryPacketBuffer,
                                           Len(binaryPacketBuffer)))
       => /\ pc' = "restart"
          /\ out' = <<>>
          /\ UNCHANGED <<cacheVars, packetsRepeated, radioMode>>]_vars

\* The repeater's callback has returned from a packet with nodeId 0 while
\* its cache holds pairs remembered earlier.
C18_Witness ==
    /\ role = "repeater" /\ pc = "restart"
    /\ binaryPacketBuffer = InvalidPacket
    /\ out = <<>>
    /\ calls > 0 /\ cacheIndex = calls % REPEATER_PACKET_CACHE_SIZE

\* ------------------------------------------------------------------------
\* Transceiver properties
\* ------------------------------------------------------------------------
\* C19: after a transmission no further transmission starts before the
\* minimum pause computed from its measured airtime has elapsed since it
\* ended.
C19_DutyCyclePause ==
    Len(txLog) = 2 => txLog[2].start >= txLog[1].end + txLog[1].pause

\* ------------------------------------------------------------------------
\* Sender properties
\* ------------------------------------------------------------------------
\* C20: every Sensor packet carries the messageCounter of the previous
\* Sensor packet plus one (mod 2^32), whether or not the transmissions
\* succeeded; likewise for GNSS packets; building a packet of one type
\* leaves the counter of the other type alone.
C20_SequenceNumbers ==
    [][/\ \A t \in {"sensor", "gnss"} :
            Len(sentLog'[t]) = 2 =>
                sentLog'[t][2].counter = Inc32(sentLog'[t][1].counter)
       /\ sentLog'.sensor # sentLog.sensor =>
            /\ gnssPacketCounter' = gnssPacketCounter
            /\ sensorPacketCounter' = Inc32(sensorPacketCounter)
       /\ sentLog'.gnss # sentLog.gnss =>
            /\ sensorPacketCounter' = sensorPacketCounter
            /\ gnssPacketCounter' = Inc32(gnssPacketCounter)]_vars

\* After a Sensor packet with counter 2^32 - 1 whose transmission failed,
\* and a GNSS packet in between, the next Sensor packet carries counter 0.
C20_Witness ==
    /\ Len(sentLog.sensor) = 2
    /\ sentLog.sensor[1] = [counter |-> <<255, 255, 255, 255>>, ok |-> FALSE]
    /\ sentLog.sensor[2].counter = <<0, 0, 0, 0>>
    /\ Len(sentLog.gnss) = 1
    /\ sentLog.gnss[1].counter = <<0, 0, 0, 0>>
    /\ U8(txPacket, OffMessageType) = SensorSentinel_MSG_SENSOR
    /\ sensorPacketCounter = <<1, 0, 0, 0>>

\* C21: two different packets of one sender never carry the same
\* (nodeId, messageCounter): a Sensor packet and a GNSS packet built by the
\* same device (same nodeId) differ in their counter field, so a cache keyed
\* by (nodeId, counter) never takes one for a re-reception of the other.
C21_UniqueTransmission ==
    \A i \in DOMAIN sentLog.sensor, j \in DOMAIN sentLog.gnss :
        sentLog.sensor[i].counter # sentLog.gnss[j].counter

\* ------------------------------------------------------------------------
\* Builder properties with a fix
\* ------------------------------------------------------------------------
\* C27: every GNSS packet that init_gnss_packet builds from a fix the GNSS
\* receiver reports as valid passes validate on a node with non-zero id.
C27_BuiltFixValid ==
    (codecPc = "built" /\ hasValidFix /\ device.nodeId # 0)
        => SensorSentinel_validate_packet(gnssPacket, GnssPacketSize)

\* Restricted to fixes whose HDOP is at most 20.0 the built packet passes.
BuiltFixValidUpTo20 ==
    (codecPc = "built" /\ hasValidFix /\ device.nodeId # 0
        /\ device.gps.hdop10 <= 200)
        => SensorSentinel_validate_packet(gnssPacket, GnssPacketSize)

\* ------------------------------------------------------------------------
\* Repeater properties
\* ------------------------------------------------------------------------
\* C22: the bytes and the length the repeater hands to radio.transmit are
\* the bytes and the length that passed validate in that callback
\* invocation, and the shared receive buffer is not written from the
\* validation to the transmission, the collision-avoidance delay included.
C22_VerbatimRepeat ==
    [][/\ \A i \in DOMAIN out' :
            out'[i].op = "transmit" =>
                /\ SensorSentinel_validate_packet(out'[i].data,
                                                  out'[i].length)
                /\ \E j \in 1..(i - 1) :
                      /\ out'[j].op = "delay"
                      /\ out'[j].data = out'[i].data
                      /\ out'[j].length = out'[i].length
       /\ pc \in {"callback", "rp_delay"}
            => binaryPacketBuffer' = binaryPacketBuffer]_vars

\* The repeater has transmitted (5, 1) as it was validated, although the
\* radio completed the reception of another packet during the delay.
C22_Witness ==
    /\ role = "repeater" /\ pc = "rp_remember"
    /\ Len(out) = 3 /\ out[3].op = "transmit"
    /\ out[3].data = PacketOf(ReplayPair)
    /\ out[3].length = SensorPacketSize
    /\ out[2].data = PacketOf(ReplayPair)
    /\ radioPacket = InvalidPacket

\* C24: the repeater transmits a pair only when the pair is not in its
\* cache, the pair is in the cache when the callback that transmitted it
\* returns, and a later valid reception of the pair, with fewer than
\* capacity pairs remembered in between, is skipped: nothing is transmitted
\* and the cache is left alone.
C24_RepeaterAtMostOnce ==
    [][role = "repeater" =>
        LET p == PairOf(binaryPacketBuffer)
        IN  /\ (pc = "rp_delay" /\ pc' # "rp_delay")
                  => shouldRepeatPacket(p.nodeId, p.messageCounter)
            /\ (pc = "rp_remember" /\ pc' # "rp_remember")
                  => ~shouldRepeatPacket(p.nodeId, p.messageCounter)'
            /\ (/\ pc = "callback" /\ pc' # "callback"
                /\ SensorSentinel_validate_packet(binaryPacketBuffer,
                                                  Len(binaryPacketBuffer))
                /\ SightedWithinWindow(p))
                  => /\ pc' = "restart"
                     /\ out' = <<Event("lookup", p), Event("skip", p)>>
                     /\ UNCHANGED cacheVars]_vars

\* The repeater has skipped a second reception of (5, 1) that came after 9
\* other pairs had been repeated and remembered.
C24_Witness ==
    /\ role = "repeater" /\ pc = "restart"
    /\ binaryPacketBuffer = PacketOf(ReplayPair)
    /\ sightings[ReplayPair] = 2
    /\ since[ReplayPair] = REPEATER_PACKET_CACHE_SIZE - 1
    /\ out = <<Event("lookup", ReplayPair), Event("skip", ReplayPair)>>
    /\ packetsRepeated = REPEATER_PACKET_CACHE_SIZE

\* C26: the gateway keeps the pair in its cache whatever status the MQTT
\* forward returns, and the repeater adds the pair and increments
\* packetsRepeated whether or not radio transmit succeeded; a later valid
\* reception of a pair whose forward / repeat has failed and that is still
\* the last one remembered is skipped: nothing is forwarded or transmitted
\* again.
C26_RememberedOnFailure ==
    [][/\ (role = "gateway" /\ pc = "gw_forward" /\ pc' # "gw_forward")
            => /\ UNCHANGED cacheVars
               /\ isPacketAlreadyProcessed(
                      PairOf(packetBuffer).nodeId,
                      PairOf(packetBuffer).messageCounter)'
       /\ (role = "repeater" /\ pc = "rp_remember" /\ pc' # "rp_remember")
            => /\ ~shouldRepeatPacket(
                      PairOf(binaryPacketBuffer).nodeId,
                      PairOf(binaryPacketBuffer).messageCounter)'
               /\ packetsRepeated' = packetsRepeated + 1
       /\ (/\ pc = "callback" /\ pc' # "callback"
           /\ SensorSentinel_validate_packet(binaryPacketBuffer,
                                             Len(binaryPacketBuffer))
           /\ calls > 0 /\ last = PairOf(binaryPacketBuffer)
           /\ last \in failed)
            => /\ pc' = "restart"
               /\ out' = <<Event("lookup", last), Event("skip", last)>>
               /\ UNCHANGED <<cacheVars, packetsRepeated, failed>>
      ]_vars

\* The repeater has skipped a second reception of (5, 1) whose repeat
\* transmission had failed; the failed repeat was counted.
C26_Witness ==
    /\ role = "repeater" /\ pc = "restart"
    /\ binaryPacketBuffer = PacketOf(ReplayPair)
    /\ last = ReplayPair /\ ReplayPair \in failed
    /\ sightings[ReplayPair] = 2
    /\ packetsRepeated = 1
    /\ out = <<Event("lookup", ReplayPair), Event("skip", ReplayPair)>>

\* ------------------------------------------------------------------------
\* Reception properties
\* ------------------------------------------------------------------------
\* The radio completes the reception of an intact packet (the loop's own
\* steps all move pc).
IntactReception ==
    /\ UNCHANGED pc
    /\ \E packet \in {PacketOf(FreshPair), PacketOf(ReplayPair),
                      PacketOf(OwnPair), InvalidPacket} :
          RadioRx(packet, TRUE)

\* C28: no reception is lost: every packet whose reception completes at the
\* radio sets the pending flag (only the handler sets it, at the moment DIO1
\* fires, so a reception that leaves the flag clear is never delivered to
\* the callback), also when it completes while a previous packet is being
\* processed or between restarting reception and re-attaching the handler.
C28_NoReceptionLost ==
    [][IntactReception => packetReceived']_vars

\* While the handler is attached every completed reception sets the flag.
FlaggedWhileAttached ==
    [][(IntactReception /\ dio1Action) => packetReceived']_vars

\* ------------------------------------------------------------------------
\* Empty cache slots
\* ------------------------------------------------------------------------
\* The slots of this sketch's cache, and those a remember call has written.
Slots == IF role = "gateway" THEN receivedCache ELSE packetCache
Written == 1..(IF calls < capacity THEN calls ELSE capacity)

\* C29: the cache starts zeroed and only pairs of packets that passed
\* validate (nodeId # 0) are written to it, so a callback reports a packet
\* as already seen only when a written slot holds its pair, never because
\* of a never-written (0, 0) slot; this includes packets with
\* messageCounter 0.
C29_EmptySlotsInert ==
    [][/\ (/\ pc = "callback" /\ pc' # "callback"
           /\ Len(out') > 0 /\ out'[Len(out')].op = "skip")
            => \E i \in Written : Slots[i] = PairOf(binaryPacketBuffer)
       /\ \A i \in Written' : Slots'[i].nodeId # 0
       /\ \A i \in (1..capacity) \ Written : Slots[i] = ZeroEntry
      ]_vars

\* The gateway has taken (9, 0), a packet with messageCounter 0, as new
\* while 49 slots of its cache were never written; before that a packet
\* with pair (0, 0) had been received.
C29_Witness ==
    /\ role = "gateway" /\ pc = "gw_forward"
    /\ PairOf(packetBuffer) = [nodeId |-> 9, messageCounter |-> 0]
    /\ calls = 1
    /\ receivedCache[2] = ZeroEntry
    /\ radioPacket = InvalidPacket

\* ------------------------------------------------------------------------
\* Subscription properties
\* ------------------------------------------------------------------------
Registered == packetCallback # NULL \/ binaryPacketCallback # NULL

\* C30: whenever control is back in the main loop, after any sequence of
\* subscribe, unsubscribe and process_packets calls (unsubscribing inside a
\* callback included), the receive handler is attached exactly when at
\* least one of the two callbacks is registered; process_packets does not
\* restart reception when its callbacks left no subscription.
C30_SubscriptionState ==
    [][/\ pc = "loop" => (dio1Action <=> Registered)
       /\ pc' = "loop" => (dio1Action' <=> Registered')
       /\ (pc = "pp_end" /\ pc' = "loop" /\ ~Registered)
            => /\ out' = out
               /\ radioMode' = "standby"
      ]_vars

\* process_packets has returned to the loop after its binary callback
\* removed the last subscription: handler detached, reception not
\* restarted.
C30_Witness ==
    /\ pc = "loop"
    /\ out = <<[op |-> "callback"], [op |-> "unsubscribe_binary_packets"]>>
    /\ ~Registered /\ ~dio1Action /\ radioMode = "standby"

\* ------------------------------------------------------------------------
\* MQTT properties
\* ------------------------------------------------------------------------
Forwarded == codecPc = "forwarded"

\* C23: forward returns MQTT_SUCCESS only if the packet passed validate, the
\* client was connected and publish returned true; it returns
\* MQTT_INVALID_PACKET for every packet failing validate, connected or not,
\* and MQTT_NOT_CONNECTED for a valid packet while disconnected; in those
\* two cases publish is not called.
C23_ForwardStatus ==
    Forwarded =>
        LET valid == SensorSentinel_validate_packet(data, dataSize)
        IN  /\ mqttStatus = "MQTT_SUCCESS" =>
                  (valid /\ mqttConnected /\ publishCalls = <<TRUE>>)
            /\ ~valid =>
                  (mqttStatus = "MQTT_INVALID_PACKET" /\ publishCalls = <<>>)
            /\ (valid /\ ~mqttConnected) =>
                  (mqttStatus = "MQTT_NOT_CONNECTED" /\ publishCalls = <<>>)

\* A GNSS packet with nodeId 0 was handed to forward while the client was
\* disconnected: MQTT_INVALID_PACKET, nothing published.
C23_Witness ==
    /\ Forwarded /\ ~mqttConnected
    /\ data = Poke(BaseGnss, OffNodeId, Bytes32(0))
    /\ dataSize = GnssPacketSize
    /\ mqttStatus = "MQTT_INVALID_PACKET"
    /\ publishCalls = <<>>

\* Both of the last two connection attempts failed.
BrokerUnreachable ==
    Len(attemptLog) = 2 /\ ~attemptLog[1].ok /\ ~attemptLog[2].ok

\* C25: while the broker is unreachable, two successive broker connection
\* attempts are never started less than connectionInterval apart, whatever
\* the sequence of maintain and connect calls.
C25_ReconnectRateLimit ==
    BrokerUnreachable =>
        attemptLog[2].start - attemptLog[1].start >= connectionInterval

\* The same for the build with mqtt_helper.cpp alone.
HelperRateLimit == mqttVariant = "helper" => C25_ReconnectRateLimit

====
